---- MODULE Spec2Model ----
(***************************************************************************)
(* A model of the MCP protocol client (class MCPClient): the connection    *)
(* phase, the pending-request table with its timers, the promise each      *)
(* sendRequest hands to its caller, the stdout/stderr read loops with the  *)
(* frame decoder, and the multi-step disconnect().                         *)
(*                                                                         *)
(* The client runs on a single-threaded event loop: code between two       *)
(* awaits is atomic, and whatever resumes after an await (the continuation *)
(* of an API call, a timer callback, a write-failure callback, the next    *)
(* chunk of a read loop) is a separate action of the model.                *)
(***************************************************************************)
EXTENDS Integers, Sequences, FiniteSets, TLC

\* ------------------------------------------------------------------ bounds
\* Request ids the client allocates in a run.
MaxId == 2
\* Request ids the client allocates over the connections of a reused
\* instance, and the ids a server may answer with.
MaxSessionId == 3
\* Bytes in one chunk, and characters held in the decode buffer, in the
\* specification of the decoding.
MaxChunk == 2
MaxBuffer == 3
\* Request ids the client allocates in the specification of the decoding.
MaxDecoderId == 1

\* ------------------------------------------------------------- vocabulary
Null == "null"
Undefined == "undefined"
NoId == 0
NoMethod == "none"
NoPayload == "none"

Phases == {"disconnected", "connecting", "connected", "initializing", "ready"}

\* Result payloads a server may answer with (for initialize: the capability
\* payload together with server identity and protocol version).
Payloads == {"pA", "pB"}

FeatureOps ==
    {"listTools", "listPrompts", "listResources", "callTool", "getPrompt", "getResource"}

\* What a line of text parses to (JSON.parse), or a parse failure.
Msg(v, i, m, b, p) == [jsonrpc |-> v, id |-> i, method |-> m, body |-> b, payload |-> p]
NoMsg == Msg("none", NoId, NoMethod, "none", NoPayload)

\* Ids a server may answer with.
Ids == 1..MaxSessionId

Responses ==
    {Msg("2.0", i, NoMethod, "result", p) : i \in Ids, p \in Payloads}
    \cup {Msg("2.0", i, NoMethod, "error", NoPayload) : i \in Ids}

Notifications ==
    {Msg("2.0", NoId, "notifications/tools/list_changed", "none", NoPayload),
     Msg("2.0", NoId, "custom/unknown", "none", NoPayload)}

\* Well-formed JSON that is neither: wrong or missing version tag, an id
\* together with a method (a server-to-client request), neither id nor method.
OddMessages ==
    {Msg("1.0", 1, NoMethod, "result", "pA"),
     Msg("none", 1, NoMethod, "result", "pA"),
     Msg("2.0", 1, "server/request", "none", NoPayload),
     Msg("2.0", NoId, NoMethod, "none", NoPayload)}

ServerMessages == Responses \cup Notifications \cup OddMessages

\* Characters of decoded text.  One "json" character stands for a complete
\* JSON value; "junk" is text that is no JSON; "sp" is white space; "nl" is
\* the newline; "ch2" is a two-byte character and "fffd" the replacement
\* character the decoder emits for a malformed byte sequence.
Ch(t, m) == [t |-> t, m |-> m]
NL == Ch("nl", NoMsg)
SP == Ch("sp", NoMsg)
JUNK == Ch("junk", NoMsg)
CH2 == Ch("ch2", NoMsg)
FFFD == Ch("fffd", NoMsg)
J(m) == Ch("json", m)
\* The JSON text of m in two pieces: up to a place inside a string of its
\* payload, and from there on.
JO(m) == Ch("jopen", m)
JC(m) == Ch("jclose", m)
\* Bytes on the pipes: every one-byte character, and the two bytes of "ch2".
LEAD == Ch("lead", NoMsg)
TRAIL == Ch("trail", NoMsg)

\* --------------------------------------------------------------- the state
VARIABLES
    config,             \* MCPClientConfig given to the constructor
    logger,             \* ILogger given to the constructor: "silent" drops what
                        \* it is handed, "recording" keeps it
    connectionStatus,   \* the phase
    process,            \* this.process: Null or "child"
    stdin,              \* this.stdin:   Null or "writer"
    stdout,             \* this.stdout:  Null or "reader"
    stderr,             \* this.stderr:  Null or "reader"
    serverCapabilities, \* Undefined or a payload
    serverInfo,         \* Undefined or a payload
    protocolVersion,    \* Undefined or a payload
    pendingRequests,    \* keys of the pending table
    nextRequestId,
    buffer,             \* decode buffer: sequence of characters
    decoder,            \* TextDecoder state: TRUE when a lead byte is held back
    timers,             \* ids whose setTimeout is armed (not fired, not cleared)
    promise,            \* id -> the promise sendRequest returned for it
    awaiting,           \* id -> the API operation suspended on promise[id]
    writing,            \* ids whose stdin.write() has not settled yet
    lastFrame,          \* the request frame handed to stdin.write() in the step
                        \* leading here (NoFrame: none was)
    lastCall,           \* what the API call that returned or threw in the step
                        \* leading here handed to its caller (NoCall: none did)
    logged,             \* what the read loop handed to a recording logger in
                        \* the step leading here
    stdoutLoop,         \* TRUE while readStream(stdout) is blocked in read()
    disc,               \* the disconnect() call in progress
    child               \* the process this.process refers to: running, signals
                        \* sent to it, the 5 s kill timer

vars ==
    <<config, logger, connectionStatus, process, stdin, stdout, stderr, serverCapabilities,
      serverInfo, protocolVersion, pendingRequests, nextRequestId, buffer, decoder,
      timers, promise, awaiting, writing, lastFrame, lastCall, logged,
      stdoutLoop, disc, child>>

\* ---------------------------------------------------------------- promises
\* The promise sendRequest creates (new Promise((resolve, reject) => ...)):
\* resolve and reject settle it once; on a settled promise both do nothing.
Pending == [state |-> "pending", error |-> "none", response |-> NoMsg]
Fulfilled(m) == [state |-> "fulfilled", error |-> "none", response |-> m]
Rejected(e) == [state |-> "rejected", error |-> e, response |-> NoMsg]

TimeoutError == "MCPTimeoutError: Request timeout"
ClosedError == "MCPConnectionError: Connection closed"
WriteError == "MCPConnectionError: Failed to send request"
NotConnectedError == "MCPConnectionError: Client not connected"
ConnectionErrors == {ClosedError, WriteError, NotConnectedError}

resolve(p, id, m) ==
    IF p[id].state = "pending" THEN [p EXCEPT ![id] = Fulfilled(m)] ELSE p

reject(p, id, e) ==
    IF p[id].state = "pending" THEN [p EXCEPT ![id] = Rejected(e)] ELSE p

\* The reject loop of disconnect(), had it stopped after the first entry.
rejectFirst(p, ids, e) ==
    IF ids = {} THEN p
    ELSE reject(p, CHOOSE i \in ids : \A j \in ids : i <= j, e)

\* The reject loop of disconnect() over the entries ids of the table.
RECURSIVE rejectAll(_, _, _)
rejectAll(p, ids, e) ==
    IF ids = {} THEN p
    ELSE LET id == CHOOSE i \in ids : TRUE
         IN rejectAll(reject(p, id, e), ids \ {id}, e)

\* A request frame as written to the child's stdin.
Frame(id, method, params) == [id |-> id, method |-> method, params |-> params]
NoFrame == Frame(NoId, NoMethod, NoPayload)

\* What getHealthStatus() returns: healthy, error ("none" when the field is
\* absent) and the metrics.
Health(h, e, m) ==
    [healthy |-> h, error |-> e, pendingRequests |-> m[1], bufferSize |-> m[2],
     connectionStatus |-> m[3]]
NoMetrics == <<0, 0, 0>>
NoHealth == Health(FALSE, "none", NoMetrics)

\* What an API call handed back to its caller: the value it returned or the
\* error it threw (health: the object getHealthStatus() returned).
Call(op, id, status, error, detail, value, health) ==
    [op |-> op, id |-> id, status |-> status, error |-> error, detail |-> detail,
     value |-> value, health |-> health]
NoCall == Call("none", NoId, "none", "none", "", NoPayload, NoHealth)
Returned(op, id, value) == Call(op, id, "returned", "none", "", value, NoHealth)
Threw(op, id, error, detail) == Call(op, id, "threw", error, detail, NoPayload, NoHealth)
ReturnedHealth(id, h) == Call("getHealthStatus", id, "returned", "none", "", NoPayload, h)

\* ----------------------------------------------------------------- decoding
\* this.decoder.decode(value, {stream: true}): UTF-8 decoding that holds back
\* an incomplete sequence until the next call.  held is TRUE when the previous
\* call ended on a lead byte.
RECURSIVE decode(_, _)
decode(held, bytes) ==
    IF bytes = <<>> THEN [text |-> <<>>, held |-> held]
    ELSE LET b == Head(bytes)
             rest == Tail(bytes)
         IN IF held
            THEN IF b.t = "trail"
                 THEN LET r == decode(FALSE, rest)
                      IN [text |-> <<CH2>> \o r.text, held |-> r.held]
                 ELSE LET r == decode(FALSE, bytes)
                      IN [text |-> <<FFFD>> \o r.text, held |-> r.held]
            ELSE IF b.t = "lead" THEN decode(TRUE, rest)
            ELSE IF b.t = "trail"
                 THEN LET r == decode(FALSE, rest)
                      IN [text |-> <<FFFD>> \o r.text, held |-> r.held]
                 ELSE LET r == decode(FALSE, rest)
                      IN [text |-> <<b>> \o r.text, held |-> r.held]

\* this.buffer.indexOf('\n'): the first newline, 0 when there is none.
RECURSIVE indexOfNewline(_, _)
indexOfNewline(s, i) ==
    IF i > Len(s) THEN 0
    ELSE IF s[i].t = "nl" THEN i
    ELSE indexOfNewline(s, i + 1)

\* String.prototype.trim.
RECURSIVE trim(_)
trim(s) ==
    IF s = <<>> THEN s
    ELSE IF Head(s).t = "sp" THEN trim(Tail(s))
    ELSE IF s[Len(s)].t = "sp" THEN trim(SubSeq(s, 1, Len(s) - 1))
    ELSE s

\* JSON.parse(line): the value, or NoMsg when the line is no JSON text.  A
\* JSON text is one "json" character, or a first half and a second half of
\* the same value around the two-byte characters of a string in its payload;
\* a replacement character in their place is a string like any other.
JSONparse(line) ==
    IF Len(line) = 1 /\ line[1].t = "json" THEN line[1].m
    ELSE IF /\ Len(line) >= 2
            /\ line[1].t = "jopen"
            /\ line[Len(line)].t = "jclose"
            /\ line[1].m = line[Len(line)].m
            /\ \A i \in 2..(Len(line) - 1) : line[i].t \in {"ch2", "fffd"}
    THEN IF \E i \in 2..(Len(line) - 1) : line[i].t = "fffd"
         THEN [line[1].m EXCEPT !.payload = "garbled"]
         ELSE line[1].m
    ELSE NoMsg

\* JSON.parse(line) followed by the jsonrpc check: the message, or NoMsg when
\* the line is dropped (parse error, or version tag missing or not "2.0").
parse(line) ==
    LET message == JSONparse(line)
    IN IF message # NoMsg /\ message.jsonrpc = "2.0" THEN message ELSE NoMsg

\* A line handed to the logger: level, text, and the message it is about.
Entry(level, text, subject) == [level |-> level, text |-> text, subject |-> subject]

\* handleNotification: what it logs; it does nothing else.
handleNotification(notification) ==
    <<Entry("debug", "Received notification", notification),
      CASE notification.method = "notifications/tools/list_changed" ->
              Entry("info", "Server tools list changed", NoMsg)
        [] notification.method = "notifications/prompts/list_changed" ->
              Entry("info", "Server prompts list changed", NoMsg)
        [] notification.method = "notifications/resources/list_changed" ->
              Entry("info", "Server resources list changed", NoMsg)
        [] OTHER -> Entry("debug", "Unknown notification method", notification)>>

\* processMessage, had it taken every message with an id for a response.
processMessageAnyId(st, line) ==
    LET message == parse(line)
    IN IF message = NoMsg
       THEN [st EXCEPT !.logged = Append(@, Entry("error", "Failed to parse message",
                                                   JSONparse(line)))]
       ELSE IF message.id # NoId
            THEN [pendingRequests |-> st.pendingRequests \ {message.id},
                  timers |-> st.timers \ {message.id},
                  promise |-> IF message.id \in DOMAIN st.promise
                              THEN resolve(st.promise, message.id, message)
                              ELSE st.promise,
                  logged |-> st.logged]
       ELSE IF message.method # NoMethod /\ message.id = NoId
            THEN [st EXCEPT !.logged = @ \o handleNotification(message)]
       ELSE [st EXCEPT !.logged = Append(@, Entry("warn", "Received unexpected message",
                                                  message))]

\* processMessage, had it given a response to the oldest pending request.
processMessageInOrder(st, line) ==
    LET message == parse(line)
        oldest == CHOOSE id \in st.pendingRequests : \A other \in st.pendingRequests : id <= other
    IN IF message = NoMsg
       THEN [st EXCEPT !.logged = Append(@, Entry("error", "Failed to parse message",
                                                   JSONparse(line)))]
       ELSE IF message.id # NoId /\ st.pendingRequests # {}
            THEN [pendingRequests |-> st.pendingRequests \ {oldest},
                  timers |-> st.timers \ {oldest},
                  promise |-> resolve(st.promise, oldest, message),
                  logged |-> st.logged]
       ELSE IF message.method # NoMethod /\ message.id = NoId
            THEN [st EXCEPT !.logged = @ \o handleNotification(message)]
       ELSE [st EXCEPT !.logged = Append(@, Entry("warn", "Received unexpected message",
                                                  message))]

\* processMessage, had it taken every message with a method for a
\* notification before looking at the id.
processMessageMethodFirst(st, line) ==
    LET message == parse(line)
    IN IF message = NoMsg
       THEN [st EXCEPT !.logged = Append(@, Entry("error", "Failed to parse message",
                                                   JSONparse(line)))]
       ELSE IF message.method # NoMethod
            THEN [st EXCEPT !.logged = @ \o handleNotification(message)]
       ELSE IF message.id # NoId /\ message.id \in st.pendingRequests
            THEN [pendingRequests |-> st.pendingRequests \ {message.id},
                  timers |-> st.timers \ {message.id},
                  promise |-> resolve(st.promise, message.id, message),
                  logged |-> st.logged]
       ELSE [st EXCEPT !.logged = Append(@, Entry("warn", "Received unexpected message",
                                                  message))]

\* processMessage, had the notification branch not returned.
processMessageFallsThrough(st, line) ==
    LET message == parse(line)
    IN IF message = NoMsg
       THEN [st EXCEPT !.logged = Append(@, Entry("error", "Failed to parse message",
                                                   JSONparse(line)))]
       ELSE IF message.id # NoId /\ message.id \in st.pendingRequests
            THEN [pendingRequests |-> st.pendingRequests \ {message.id},
                  timers |-> st.timers \ {message.id},
                  promise |-> resolve(st.promise, message.id, message),
                  logged |-> st.logged]
       ELSE IF message.method # NoMethod /\ message.id = NoId
            THEN [st EXCEPT !.logged =
                     Append(@ \o handleNotification(message),
                            Entry("warn", "Received unexpected message", message))]
       ELSE [st EXCEPT !.logged = Append(@, Entry("warn", "Received unexpected message",
                                                  message))]

\* processMessage on the reader state st = [pendingRequests, timers, promise,
\* logged]: a line that does not parse is logged and dropped; a message whose
\* id is in the table settles that request; a message with a method and no id
\* is a notification; any other is logged as unexpected.
processMessage(st, line) ==
    LET message == parse(line)
    IN IF message = NoMsg
       THEN [st EXCEPT !.logged = Append(@, Entry("error", "Failed to parse message",
                                                   JSONparse(line)))]
       ELSE IF message.id # NoId /\ message.id \in st.pendingRequests
            THEN [pendingRequests |-> st.pendingRequests \ {message.id},
                  timers |-> st.timers \ {message.id},
                  promise |-> resolve(st.promise, message.id, message),
                  logged |-> st.logged]
       ELSE IF message.method # NoMethod /\ message.id = NoId
            THEN [st EXCEPT !.logged = @ \o handleNotification(message)]
       ELSE [st EXCEPT !.logged = Append(@, Entry("warn", "Received unexpected message",
                                                  message))]

\* processBuffer, had a line that does not parse ended the processing of the
\* buffer.
RECURSIVE processBufferStopsOnError(_, _)
processBufferStopsOnError(st, buf) ==
    LET newlineIndex == indexOfNewline(buf, 1)
    IN IF newlineIndex = 0 THEN [st |-> st, buffer |-> buf, lines |-> <<>>]
       ELSE LET line == trim(SubSeq(buf, 1, newlineIndex - 1))
                rest == SubSeq(buf, newlineIndex + 1, Len(buf))
            IN IF Len(line) = 0 THEN processBufferStopsOnError(st, rest)
               ELSE IF parse(line) = NoMsg
               THEN [st |-> processMessage(st, line), buffer |-> <<>>,
                     lines |-> <<line>>]
               ELSE LET r == processBufferStopsOnError(processMessage(st, line), rest)
                    IN [r EXCEPT !.lines = <<line>> \o @]

\* processBuffer, had it thrown away what follows the last newline.
RECURSIVE processBufferDropsRemainder(_, _)
processBufferDropsRemainder(st, buf) ==
    LET newlineIndex == indexOfNewline(buf, 1)
    IN IF newlineIndex = 0 THEN [st |-> st, buffer |-> <<>>, lines |-> <<>>]
       ELSE LET line == trim(SubSeq(buf, 1, newlineIndex - 1))
                rest == SubSeq(buf, newlineIndex + 1, Len(buf))
            IN IF Len(line) = 0 THEN processBufferDropsRemainder(st, rest)
               ELSE LET r == processBufferDropsRemainder(processMessage(st, line), rest)
                    IN [r EXCEPT !.lines = <<line>> \o @]

\* processBuffer: cut the buffer at each newline, skip empty lines, hand the
\* others to processMessage; what follows the last newline stays buffered.
\* The result also lists the lines handed to processMessage, in order.
RECURSIVE processBuffer(_, _)
processBuffer(st, buf) ==
    LET newlineIndex == indexOfNewline(buf, 1)
    IN IF newlineIndex = 0 THEN [st |-> st, buffer |-> buf, lines |-> <<>>]
       ELSE LET line == trim(SubSeq(buf, 1, newlineIndex - 1))
                rest == SubSeq(buf, newlineIndex + 1, Len(buf))
            IN IF Len(line) = 0 THEN processBuffer(st, rest)
               ELSE LET r == processBuffer(processMessage(st, line), rest)
                    IN [r EXCEPT !.lines = <<line>> \o @]

\* ------------------------------------------------------------------- Init
\* The minimal configuration and one that sets the optional fields.
Configs == [capabilities : {Undefined, "cfgCaps"}]

NoChild == [alive |-> FALSE, signals |-> <<>>, killTimer |-> FALSE]
NewChild == [alive |-> TRUE, signals |-> <<>>, killTimer |-> FALSE]

\* The constructor, had it taken the configured capabilities for the server's.
InitConfiguredCapabilities ==
    /\ config \in Configs
    /\ logger = "silent"
    /\ connectionStatus = "disconnected"
    /\ process = Null
    /\ stdin = Null
    /\ stdout = Null
    /\ stderr = Null
    /\ serverCapabilities = config.capabilities
    /\ serverInfo = Undefined
    /\ protocolVersion = Undefined
    /\ pendingRequests = {}
    /\ nextRequestId = 1
    /\ buffer = <<>>
    /\ decoder = FALSE
    /\ timers = {}
    /\ promise = <<>>
    /\ awaiting = <<>>
    /\ writing = {}
    /\ lastFrame = NoFrame
    /\ lastCall = Returned("constructor", NoId, NoPayload)
    /\ logged = <<>>
    /\ stdoutLoop = FALSE
    /\ disc = "idle"
    /\ child = NoChild

\* The field initialisers of the class and the constructor.
Init ==
    /\ config \in Configs
    /\ logger = "silent"
    /\ connectionStatus = "disconnected"
    /\ process = Null
    /\ stdin = Null
    /\ stdout = Null
    /\ stderr = Null
    /\ serverCapabilities = Undefined
    /\ serverInfo = Undefined
    /\ protocolVersion = Undefined
    /\ pendingRequests = {}
    /\ nextRequestId = 1
    /\ buffer = <<>>
    /\ decoder = FALSE
    /\ timers = {}
    /\ promise = <<>>
    /\ awaiting = <<>>
    /\ writing = {}
    /\ lastFrame = NoFrame
    /\ lastCall = Returned("constructor", NoId, NoPayload)
    /\ logged = <<>>
    /\ stdoutLoop = FALSE
    /\ disc = "idle"
    /\ child = NoChild

sessionVars == <<serverCapabilities, serverInfo, protocolVersion>>
handleVars == <<process, stdin, stdout, stderr>>
correlatorVars == <<pendingRequests, timers, promise, writing>>
decoderVars == <<buffer, decoder>>

\* connect() runs from its first line to its return without an await: while
\* the phase is "connecting" nothing else runs.
Running == connectionStatus # "connecting"

\* A caller suspended on a settled promise resumes in a microtask, and the
\* event loop runs no timer callback and no I/O completion before the
\* microtasks are done; only other calls of the API can come in between.
continuationDue == \E id \in DOMAIN awaiting : promise[id].state # "pending"
EventLoopTurn == Running /\ ~continuationDue

\* A settled promise that no suspended caller, no armed timer and no write
\* callback refers to any more is unreachable: the model forgets it.
Drop(f, id) == [i \in DOMAIN f \ {id} |-> f[i]]
forget(p, id, referrers) ==
    IF p[id].state # "pending" /\ id \notin referrers THEN Drop(p, id) ELSE p

\* What a step reports: the call that returned in it, the frame written in it.
Returns(call) == lastCall' = call /\ lastFrame' = NoFrame /\ logged' = <<>>
Quiet == Returns(NoCall)

\* ---------------------------------------------------------------- connect
\* connect(), had its guard refused only the phase connected.
connectChecksConnected ==
    /\ Running
    /\ IF connectionStatus = "connected"
       THEN /\ Returns(Threw("connect", NoId, "MCPConnectionError",
                             "Client already connected or connecting"))
            /\ UNCHANGED connectionStatus
       ELSE /\ disc = "idle"
            /\ connectionStatus' = "connecting"
            /\ Quiet
    /\ UNCHANGED <<config, logger, handleVars, sessionVars, correlatorVars, nextRequestId,
                   decoderVars, awaiting, stdoutLoop, disc, child>>

\* connect() up to its try block.  A connect() that finds the phase
\* disconnected is let in when no disconnect() is in progress.
connect ==
    /\ Running
    /\ IF connectionStatus # "disconnected"
       THEN /\ Returns(Threw("connect", NoId, "MCPConnectionError",
                             "Client already connected or connecting"))
            /\ UNCHANGED connectionStatus
       ELSE /\ disc = "idle"
            /\ connectionStatus' = "connecting"
            /\ Quiet
    /\ UNCHANGED <<config, logger, handleVars, sessionVars, correlatorVars, nextRequestId,
                   decoderVars, awaiting, stdoutLoop, disc, child>>

\* The rest of connect(), had its catch block left the phase as it was.
connectSpawnKeepsPhase ==
    /\ connectionStatus = "connecting"
    /\ Returns(Threw("connect", NoId, "MCPConnectionError",
                     "Failed to start MCP server process"))
    /\ UNCHANGED <<config, logger, connectionStatus, handleVars, sessionVars, correlatorVars,
                   nextRequestId, decoderVars, awaiting, stdoutLoop, disc, child>>

\* The try block of connect(): spawn, take the stream handles, start both read
\* loops; or the catch block when the process cannot be launched.
connectSpawn ==
    /\ connectionStatus = "connecting"
    /\ \E launched \in BOOLEAN :
          IF launched
          THEN /\ process' = "child"
               /\ stdin' = "writer"
               /\ stdout' = "reader"
               /\ stderr' = "reader"
               /\ stdoutLoop' = TRUE
               /\ child' = NewChild
               /\ connectionStatus' = "connected"
               /\ Returns(Returned("connect", NoId, NoPayload))
          ELSE /\ connectionStatus' = "disconnected"
               /\ Returns(Threw("connect", NoId, "MCPConnectionError",
                                "Failed to start MCP server process"))
               /\ UNCHANGED <<handleVars, stdoutLoop, child>>
    /\ UNCHANGED <<config, logger, sessionVars, correlatorVars, nextRequestId, decoderVars,
                   awaiting, disc>>

\* ------------------------------------------------------------ sendRequest
Methods ==
    [listTools |-> "tools/list", listPrompts |-> "prompts/list",
     listResources |-> "resources/list", callTool |-> "tools/call",
     getPrompt |-> "prompts/get", getResource |-> "resources/read",
     initialize |-> "initialize", ping |-> "ping"]

\* getNextRequestId(), had it returned the counter without advancing it.
getNextRequestIdStuck == [id |-> nextRequestId, nextRequestId |-> nextRequestId]

\* getNextRequestId(): the id it returns and the counter it leaves.
getNextRequestId == [id |-> nextRequestId, nextRequestId |-> nextRequestId + 1]

\* sendRequest, had it registered the entry without arming a timer.
sendRequestNoTimer(status, id, method, params) ==
    IF status = "disconnected" \/ stdin = Null
    THEN /\ promise' = (id :> Rejected(NotConnectedError)) @@ promise
         /\ lastFrame' = NoFrame
         /\ logged' = <<>>
         /\ UNCHANGED <<pendingRequests, timers, writing>>
    ELSE /\ promise' = (id :> Pending) @@ promise
         /\ pendingRequests' = pendingRequests \cup {id}
         /\ timers' = timers
         /\ lastFrame' = Frame(id, method, params)
         /\ logged' = <<>>
         /\ writing' = writing \cup {id}

\* sendRequest, had it handed the frame to stdin.write without registering the
\* entry and its timer.
sendRequestUnregistered(status, id, method, params) ==
    IF status = "disconnected" \/ stdin = Null
    THEN /\ promise' = (id :> Rejected(NotConnectedError)) @@ promise
         /\ lastFrame' = NoFrame
         /\ logged' = <<>>
         /\ UNCHANGED <<pendingRequests, timers, writing>>
    ELSE /\ promise' = (id :> Pending) @@ promise
         /\ pendingRequests' = pendingRequests
         /\ timers' = timers
         /\ lastFrame' = Frame(id, method, params)
         /\ logged' = <<>>
         /\ writing' = writing \cup {id}

\* sendRequest(request) called while the phase is status: the guard, then the
\* promise executor (register entry and timer, hand the frame to stdin.write).
sendRequest(status, id, method, params) ==
    IF status = "disconnected" \/ stdin = Null
    THEN /\ promise' = (id :> Rejected(NotConnectedError)) @@ promise
         /\ lastFrame' = NoFrame
         /\ logged' = <<>>
         /\ UNCHANGED <<pendingRequests, timers, writing>>
    ELSE /\ promise' = (id :> Pending) @@ promise
         /\ pendingRequests' = pendingRequests \cup {id}
         /\ timers' = timers \cup {id}
         /\ lastFrame' = Frame(id, method, params)
         /\ logged' = <<>>
         /\ writing' = writing \cup {id}

Waiter(op, metrics) == [op |-> op, metrics |-> metrics]

\* The setTimeout callback, had it been written to clear the whole table.
timerFireClearsTable(id) ==
    /\ EventLoopTurn
    /\ id \in timers
    /\ timers' = timers \ {id}
    /\ pendingRequests' = {}
    /\ promise' = forget(reject(promise, id, TimeoutError), id,
                         DOMAIN awaiting \cup writing)
    /\ Quiet
    /\ UNCHANGED <<config, logger, connectionStatus, handleVars, sessionVars, nextRequestId,
                   decoderVars, awaiting, writing, stdoutLoop, disc, child>>

\* The setTimeout callback, had it rejected without deleting the entry.
timerFireKeepsEntry(id) ==
    /\ EventLoopTurn
    /\ id \in timers
    /\ timers' = timers \ {id}
    /\ promise' = forget(reject(promise, id, TimeoutError), id,
                         DOMAIN awaiting \cup writing)
    /\ Quiet
    /\ UNCHANGED <<config, logger, connectionStatus, handleVars, sessionVars, nextRequestId,
                   decoderVars, awaiting, writing, stdoutLoop, disc, child,
                   pendingRequests>>

\* The setTimeout callback of request id.
timerFire(id) ==
    /\ EventLoopTurn
    /\ id \in timers
    /\ timers' = timers \ {id}
    /\ pendingRequests' = pendingRequests \ {id}
    /\ promise' = forget(reject(promise, id, TimeoutError), id,
                         DOMAIN awaiting \cup writing)
    /\ Quiet
    /\ UNCHANGED <<config, logger, connectionStatus, handleVars, sessionVars, nextRequestId,
                   decoderVars, awaiting, writing, stdoutLoop, disc, child>>

\* The catch callback of stdin.write, had it cleared the whole pending table.
writeSettleClearsTable(id, ok) ==
    /\ EventLoopTurn
    /\ id \in writing
    /\ writing' = writing \ {id}
    /\ IF ok
       THEN /\ promise' = forget(promise, id, DOMAIN awaiting \cup timers)
            /\ UNCHANGED pendingRequests
       ELSE /\ pendingRequests' = {}
            /\ promise' = forget(reject(promise, id, WriteError), id,
                                 DOMAIN awaiting \cup timers)
    /\ Quiet
    /\ UNCHANGED <<config, logger, connectionStatus, handleVars, sessionVars, nextRequestId,
                   decoderVars, awaiting, timers, stdoutLoop, disc, child>>

\* stdin.write(data) of request id settles: nothing on success, the catch
\* callback on failure.
writeSettle(id, ok) ==
    /\ EventLoopTurn
    /\ id \in writing
    /\ writing' = writing \ {id}
    /\ IF ok
       THEN /\ promise' = forget(promise, id, DOMAIN awaiting \cup timers)
            /\ UNCHANGED pendingRequests
       ELSE /\ pendingRequests' = pendingRequests \ {id}
            /\ promise' = forget(reject(promise, id, WriteError), id,
                                 DOMAIN awaiting \cup timers)
    /\ Quiet
    /\ UNCHANGED <<config, logger, connectionStatus, handleVars, sessionVars, nextRequestId,
                   decoderVars, awaiting, timers, stdoutLoop, disc, child>>

\* ---------------------------------------------------------------- the API
\* ensureReady(), had it let the phase connected through.
ensureConnected == connectionStatus \in {"connected", "ready"}

\* ensureReady() does not throw.
ensureReady == connectionStatus = "ready"

InitParams(override) ==
    IF override # Undefined THEN override
    ELSE IF config.capabilities # Undefined THEN config.capabilities
    ELSE "defaultCapabilities"

\* initialize() up to its await, had its guard let every phase from connected
\* on through.
initializeOnceConnected(override) ==
    /\ Running
    /\ IF connectionStatus \notin {"connected", "initializing", "ready"}
       THEN /\ Returns(Threw("initialize", NoId, "MCPConnectionError",
                             "Client not connected"))
            /\ UNCHANGED <<connectionStatus, nextRequestId, correlatorVars, awaiting>>
       ELSE /\ connectionStatus' = "initializing"
            /\ nextRequestId' = getNextRequestId.nextRequestId
            /\ sendRequest("initializing", getNextRequestId.id, Methods.initialize,
                           InitParams(override))
            /\ awaiting' = (getNextRequestId.id :> Waiter("initialize", NoMetrics))
                              @@ awaiting
            /\ lastCall' = NoCall
    /\ UNCHANGED <<config, logger, handleVars, sessionVars, decoderVars, stdoutLoop, disc,
                   child>>

initialize(override) ==
    /\ Running
    /\ IF connectionStatus # "connected"
       THEN /\ Returns(Threw("initialize", NoId, "MCPConnectionError",
                             "Client not connected"))
            /\ UNCHANGED <<connectionStatus, nextRequestId, correlatorVars, awaiting>>
       ELSE /\ connectionStatus' = "initializing"
            /\ nextRequestId' = getNextRequestId.nextRequestId
            /\ sendRequest("initializing", getNextRequestId.id, Methods.initialize,
                           InitParams(override))
            /\ awaiting' = (getNextRequestId.id :> Waiter("initialize", NoMetrics))
                              @@ awaiting
            /\ lastCall' = NoCall
    /\ UNCHANGED <<config, logger, handleVars, sessionVars, decoderVars, stdoutLoop, disc,
                   child>>

\* listTools, listPrompts, listResources, callTool, getPrompt, getResource up
\* to their await.
feature(op) ==
    /\ Running
    /\ IF ~ensureReady
       THEN /\ Returns(Threw(op, NoId, "MCPConnectionError", connectionStatus))
            /\ UNCHANGED <<nextRequestId, correlatorVars, awaiting>>
       ELSE /\ nextRequestId' = getNextRequestId.nextRequestId
            /\ sendRequest(connectionStatus, getNextRequestId.id, Methods[op], op)
            /\ awaiting' = (getNextRequestId.id :> Waiter(op, NoMetrics)) @@ awaiting
            /\ lastCall' = NoCall
    /\ UNCHANGED <<config, logger, connectionStatus, handleVars, sessionVars, decoderVars,
                   stdoutLoop, disc, child>>

\* getHealthStatus(), had it sent its ping in every phase but disconnected.
getHealthStatusPingsConnected ==
    /\ Running
    /\ LET metrics == <<Cardinality(pendingRequests), Len(buffer),
                        IF connectionStatus = "ready" THEN 1 ELSE 0>>
       IN IF connectionStatus = "disconnected"
          THEN /\ Returns(ReturnedHealth(NoId,
                             Health(FALSE, "Client disconnected", metrics)))
               /\ UNCHANGED <<nextRequestId, correlatorVars, awaiting>>
          ELSE /\ nextRequestId' = getNextRequestId.nextRequestId
               /\ sendRequest(connectionStatus, getNextRequestId.id, Methods.ping,
                              NoPayload)
               /\ awaiting' = (getNextRequestId.id :> Waiter("ping", metrics))
                                 @@ awaiting
               /\ lastCall' = NoCall
    /\ UNCHANGED <<config, logger, connectionStatus, handleVars, sessionVars, decoderVars,
                   stdoutLoop, disc, child>>

getHealthStatus ==
    /\ Running
    /\ LET metrics == <<Cardinality(pendingRequests), Len(buffer),
                        IF connectionStatus = "ready" THEN 1 ELSE 0>>
       IN IF connectionStatus = "disconnected"
          THEN /\ Returns(ReturnedHealth(NoId,
                             Health(FALSE, "Client disconnected", metrics)))
               /\ UNCHANGED <<nextRequestId, correlatorVars, awaiting>>
          ELSE IF connectionStatus = "ready"
          THEN /\ nextRequestId' = getNextRequestId.nextRequestId
               /\ sendRequest(connectionStatus, getNextRequestId.id, Methods.ping,
                              NoPayload)
               /\ awaiting' = (getNextRequestId.id :> Waiter("ping", metrics))
                                 @@ awaiting
               /\ lastCall' = NoCall
          ELSE /\ Returns(ReturnedHealth(NoId, Health(FALSE, "none", metrics)))
               /\ UNCHANGED <<nextRequestId, correlatorVars, awaiting>>
    /\ UNCHANGED <<config, logger, connectionStatus, handleVars, sessionVars, decoderVars,
                   stdoutLoop, disc, child>>

\* sendNotification(), had it taken a request id for its frame.
sendNotificationTakesId(ok) ==
    /\ Running
    /\ IF connectionStatus = "disconnected" \/ stdin = Null
       THEN /\ Returns(Threw("sendNotification", NoId, "MCPConnectionError",
                             "Client not connected"))
            /\ UNCHANGED nextRequestId
       ELSE /\ nextRequestId' = nextRequestId + 1
            /\ IF ok
               THEN Returns(Returned("sendNotification", NoId, "frame written"))
               ELSE Returns(Threw("sendNotification", NoId, "MCPConnectionError",
                                  "Failed to send notification"))
    /\ UNCHANGED <<config, logger, connectionStatus, handleVars, sessionVars, correlatorVars,
                   decoderVars, awaiting, stdoutLoop, disc, child>>

\* sendNotification(): the guard, the write and its outcome.
sendNotification(ok) ==
    /\ Running
    /\ IF connectionStatus = "disconnected" \/ stdin = Null
       THEN Returns(Threw("sendNotification", NoId, "MCPConnectionError",
                          "Client not connected"))
       ELSE IF ok
       THEN Returns(Returned("sendNotification", NoId, "frame written"))
       ELSE Returns(Threw("sendNotification", NoId, "MCPConnectionError",
                          "Failed to send notification"))
    /\ UNCHANGED <<config, logger, connectionStatus, handleVars, sessionVars, correlatorVars,
                   nextRequestId, decoderVars, awaiting, stdoutLoop, disc, child>>

\* ------------------------------------------- continuations after the await
ErrorKind(e) ==
    IF e = TimeoutError THEN "MCPTimeoutError"
    ELSE IF e \in ConnectionErrors THEN "MCPConnectionError"
    ELSE e

\* What a feature operation hands its caller, had it not looked at
\* response.error.
featureReturnIgnoresError(op, id, p) ==
    IF p.state = "rejected" THEN Threw(op, id, ErrorKind(p.error), p.error)
    ELSE IF p.response.body = "result" THEN Returned(op, id, p.response.payload)
    ELSE IF op \in {"listTools", "listPrompts", "listResources"}
         THEN Threw(op, id, "TypeError", "response.result is undefined")
    ELSE Returned(op, id, Undefined)

\* What a feature operation does with the settled promise p.
featureReturn(op, id, p) ==
    IF p.state = "rejected" THEN Threw(op, id, ErrorKind(p.error), p.error)
    ELSE IF p.response.body = "error" THEN Threw(op, id, "MCPError", "response.error")
    ELSE IF p.response.body = "result" THEN Returned(op, id, p.response.payload)
    ELSE IF op \in {"listTools", "listPrompts", "listResources"}
         THEN Threw(op, id, "TypeError", "response.result is undefined")
    ELSE Returned(op, id, Undefined)

\* initialize() after its await, had its catch block left the phase alone.
initializeResumeKeepsPhase(id) ==
    LET p == promise[id]
    IN IF p.state = "fulfilled" /\ p.response.body = "result"
       THEN /\ protocolVersion' = p.response.payload
            /\ serverCapabilities' = p.response.payload
            /\ serverInfo' = p.response.payload
            /\ connectionStatus' = "ready"
            /\ lastCall' = Returned("initialize", id, p.response.payload)
       ELSE /\ lastCall' =
                 IF p.state = "rejected"
                 THEN Threw("initialize", id, ErrorKind(p.error), p.error)
                 ELSE IF p.response.body = "error"
                 THEN Threw("initialize", id, "MCPError", "response.error")
                 ELSE Threw("initialize", id, "TypeError", "response.result is undefined")
            /\ UNCHANGED <<connectionStatus, sessionVars>>

\* initialize() after its await, had its success path set the phase without
\* storing what the server answered.
initializeResumeStoresNothing(id) ==
    LET p == promise[id]
    IN IF p.state = "fulfilled" /\ p.response.body = "result"
       THEN /\ connectionStatus' = "ready"
            /\ lastCall' = Returned("initialize", id, p.response.payload)
            /\ UNCHANGED sessionVars
       ELSE /\ connectionStatus' = "connected"
            /\ lastCall' =
                 IF p.state = "rejected"
                 THEN Threw("initialize", id, ErrorKind(p.error), p.error)
                 ELSE IF p.response.body = "error"
                 THEN Threw("initialize", id, "MCPError", "response.error")
                 ELSE Threw("initialize", id, "TypeError", "response.result is undefined")
            /\ UNCHANGED sessionVars

\* initialize() after its await: the success path, or the catch block.
initializeResume(id) ==
    LET p == promise[id]
    IN IF p.state = "fulfilled" /\ p.response.body = "result"
       THEN /\ protocolVersion' = p.response.payload
            /\ serverCapabilities' = p.response.payload
            /\ serverInfo' = p.response.payload
            /\ connectionStatus' = "ready"
            /\ lastCall' = Returned("initialize", id, p.response.payload)
       ELSE /\ connectionStatus' = "connected"
            /\ lastCall' =
                 IF p.state = "rejected"
                 THEN Threw("initialize", id, ErrorKind(p.error), p.error)
                 ELSE IF p.response.body = "error"
                 THEN Threw("initialize", id, "MCPError", "response.error")
                 ELSE Threw("initialize", id, "TypeError", "response.result is undefined")
            /\ UNCHANGED sessionVars

\* getHealthStatus() after awaiting its ping.
healthResume(id) ==
    LET p == promise[id]
        m == awaiting[id].metrics
    IN lastCall' =
          ReturnedHealth(id, IF p.state = "fulfilled"
                             THEN Health(connectionStatus = "ready", "none", m)
                             ELSE Health(FALSE, p.error, m))

\* The caller of request id resumes after its await.
resume(id) ==
    /\ Running
    /\ id \in DOMAIN awaiting
    /\ promise[id].state # "pending"
    /\ awaiting' = Drop(awaiting, id)
    /\ promise' = forget(promise, id, timers \cup writing)
    /\ lastFrame' = NoFrame
    /\ logged' = <<>>
    /\ IF awaiting[id].op = "initialize"
       THEN initializeResume(id)
       ELSE IF awaiting[id].op = "ping"
       THEN healthResume(id) /\ UNCHANGED <<connectionStatus, sessionVars>>
       ELSE /\ lastCall' = featureReturn(awaiting[id].op, id, promise[id])
            /\ UNCHANGED <<connectionStatus, sessionVars>>
    /\ UNCHANGED <<config, logger, handleVars, pendingRequests, timers, writing, nextRequestId,
                   decoderVars, stdoutLoop, disc, child>>

\* -------------------------------------------------------------- disconnect
\* Where disconnect() suspends next: at the first of stdin.close(),
\* stdout.cancel(), stderr.cancel() and the race on process.status whose
\* handle is set; "done" when none is.
stageAfter(stage, sin, sout, serr, proc) ==
    IF stage = "begin" /\ sin # Null THEN "stdin"
    ELSE IF stage \in {"begin", "stdin"} /\ sout # Null THEN "stdout"
    ELSE IF stage \in {"begin", "stdin", "stdout"} /\ serr # Null THEN "stderr"
    ELSE IF stage \in {"begin", "stdin", "stdout", "stderr"} /\ proc # Null THEN "race"
    ELSE "done"

\* disconnect() falls through to its end (stage "done") or suspends at stage.
disconnectGoes(stage) ==
    IF stage = "done"
    THEN disc' = "idle" /\ Returns(Returned("disconnect", NoId, NoPayload))
    ELSE disc' = stage /\ Quiet

\* disconnect(), had it refused a client that is already disconnected.
disconnectRefusesDisconnected ==
    /\ Running
    /\ IF connectionStatus = "disconnected"
       THEN /\ Returns(Threw("disconnect", NoId, "MCPConnectionError",
                             "Client not connected"))
            /\ UNCHANGED <<connectionStatus, pendingRequests, promise, disc>>
       ELSE /\ disc = "idle"
            /\ connectionStatus' = "disconnected"
            /\ promise' = rejectAll(promise, pendingRequests, ClosedError)
            /\ pendingRequests' = {}
            /\ disconnectGoes(stageAfter("begin", stdin, stdout, stderr, process))
    /\ UNCHANGED <<config, logger, handleVars, sessionVars, nextRequestId, decoderVars, timers,
                   awaiting, writing, stdoutLoop, child>>

\* disconnect() up to its first await, had it rejected the pending requests
\* and left their entries in the table.
disconnectKeepsTable ==
    /\ Running
    /\ IF connectionStatus = "disconnected"
       THEN /\ Returns(Returned("disconnect", NoId, NoPayload))
            /\ UNCHANGED <<connectionStatus, pendingRequests, promise, disc>>
       ELSE /\ disc = "idle"
            /\ connectionStatus' = "disconnected"
            /\ promise' = rejectAll(promise, pendingRequests, ClosedError)
            /\ pendingRequests' = pendingRequests
            /\ disconnectGoes(stageAfter("begin", stdin, stdout, stderr, process))
    /\ UNCHANGED <<config, logger, handleVars, sessionVars, nextRequestId, decoderVars, timers,
                   awaiting, writing, stdoutLoop, child>>

\* disconnect() up to its first await.  One disconnect() that found the phase
\* not disconnected is followed at a time.
disconnect ==
    /\ Running
    /\ IF connectionStatus = "disconnected"
       THEN /\ Returns(Returned("disconnect", NoId, NoPayload))
            /\ UNCHANGED <<connectionStatus, pendingRequests, promise, disc>>
       ELSE /\ disc = "idle"
            /\ connectionStatus' = "disconnected"
            /\ promise' = rejectAll(promise, pendingRequests, ClosedError)
            /\ pendingRequests' = {}
            /\ disconnectGoes(stageAfter("begin", stdin, stdout, stderr, process))
    /\ UNCHANGED <<config, logger, handleVars, sessionVars, nextRequestId, decoderVars, timers,
                   awaiting, writing, stdoutLoop, child>>

\* A cleanup await of disconnect() rejects: the outer catch rethrows.
disconnectThrows ==
    /\ disc' = "idle"
    /\ Returns(Threw("disconnect", NoId, "Error", "Error during disconnect"))

\* await this.stdin.close() settles.
disconnectStdin(ok) ==
    /\ Running
    /\ disc = "stdin"
    /\ IF ok
       THEN /\ stdin' = Null
            /\ disconnectGoes(stageAfter("stdin", Null, stdout, stderr, process))
       ELSE disconnectThrows /\ UNCHANGED stdin
    /\ UNCHANGED <<config, logger, connectionStatus, process, stdout, stderr, sessionVars,
                   correlatorVars, nextRequestId, decoderVars, awaiting, stdoutLoop,
                   child>>

\* await this.stdout.cancel() settles; a cancelled reader ends its read loop.
disconnectStdout(ok) ==
    /\ Running
    /\ disc = "stdout"
    /\ IF ok
       THEN /\ stdout' = Null
            /\ stdoutLoop' = FALSE
            /\ disconnectGoes(stageAfter("stdout", stdin, Null, stderr, process))
       ELSE disconnectThrows /\ UNCHANGED <<stdout, stdoutLoop>>
    /\ UNCHANGED <<config, logger, connectionStatus, process, stdin, stderr, sessionVars,
                   correlatorVars, nextRequestId, decoderVars, awaiting, child>>

\* await this.stderr.cancel() settles.
disconnectStderr(ok) ==
    /\ Running
    /\ disc = "stderr"
    /\ IF ok
       THEN /\ stderr' = Null
            /\ disconnectGoes(stageAfter("stderr", stdin, stdout, Null, process))
       ELSE disconnectThrows /\ UNCHANGED stderr
    /\ UNCHANGED <<config, logger, connectionStatus, process, stdin, stdout, sessionVars,
                   correlatorVars, nextRequestId, decoderVars, awaiting, stdoutLoop,
                   child>>

\* The race of process.status against the 100 ms timer is won by the status
\* (the process has exited; also when kill() then throws): no signal is sent,
\* and the finally block drops this.process.
disconnectExited ==
    /\ Running
    /\ disc = "race"
    /\ ~child.alive
    /\ process' = Null
    /\ child' = NoChild
    /\ disconnectGoes("done")
    /\ UNCHANGED <<config, logger, connectionStatus, stdin, stdout, stderr, sessionVars,
                   correlatorVars, nextRequestId, decoderVars, awaiting, stdoutLoop>>

\* The race is won by the timer: SIGTERM, arm the 5 s timer, await the exit.
disconnectTerminate ==
    /\ Running
    /\ disc = "race"
    /\ child.alive
    /\ child' = [child EXCEPT !.signals = Append(@, "SIGTERM"), !.killTimer = TRUE]
    /\ disc' = "exit"
    /\ Quiet
    /\ UNCHANGED <<config, logger, connectionStatus, handleVars, sessionVars, correlatorVars,
                   nextRequestId, decoderVars, awaiting, stdoutLoop>>

\* The 5 s timer callback, had it signalled a process that has exited.
killTimerFireAlways ==
    /\ EventLoopTurn
    /\ child.killTimer
    /\ child' = [child EXCEPT !.killTimer = FALSE,
                              !.signals = IF process # Null
                                          THEN Append(@, "SIGKILL") ELSE @]
    /\ Quiet
    /\ UNCHANGED <<config, logger, connectionStatus, handleVars, sessionVars, correlatorVars,
                   nextRequestId, decoderVars, awaiting, stdoutLoop, disc>>

\* The 5 s timer fires: SIGKILL if this.process is still set.
killTimerFire ==
    /\ EventLoopTurn
    /\ child.killTimer
    /\ child' = [child EXCEPT !.killTimer = FALSE,
                              !.signals = IF process # Null /\ child.alive
                                          THEN Append(@, "SIGKILL") ELSE @]
    /\ Quiet
    /\ UNCHANGED <<config, logger, connectionStatus, handleVars, sessionVars, correlatorVars,
                   nextRequestId, decoderVars, awaiting, stdoutLoop, disc>>

\* await this.process.status settles: clearTimeout, this.process = null.
disconnectAwaited ==
    /\ Running
    /\ disc = "exit"
    /\ ~child.alive
    /\ process' = Null
    /\ child' = NoChild
    /\ disconnectGoes("done")
    /\ UNCHANGED <<config, logger, connectionStatus, stdin, stdout, stderr, sessionVars,
                   correlatorVars, nextRequestId, decoderVars, awaiting, stdoutLoop>>

\* The child process exits (by itself or after a signal).
childExit ==
    /\ EventLoopTurn
    /\ child.alive
    /\ child' = [child EXCEPT !.alive = FALSE]
    /\ Quiet
    /\ UNCHANGED <<config, logger, connectionStatus, handleVars, sessionVars, correlatorVars,
                   nextRequestId, decoderVars, awaiting, stdoutLoop, disc>>

\* ---------------------------------------------------------- the read loops
\* Chunks the server's stdout delivers: one line holding one JSON value, a
\* line of junk, an empty line.
StdoutChunks ==
    {<<J(m), NL>> : m \in ServerMessages} \cup {<<JUNK, NL>>, <<SP, NL>>}

StderrChunks == {<<JUNK>>}

\* The body of the stdout read loop on the reader state st, the buffer buf
\* and the decoder state held: the chunk is decoded onto the buffer and the
\* buffer processed.
readChunk(st, buf, held, chunk) ==
    LET d == decode(held, chunk)
        r == processBuffer(st, buf \o d.text)
    IN [st |-> r.st, buffer |-> r.buffer, decoder |-> d.held, lines |-> r.lines]

\* One turn of readStream(stdout): a chunk is read, decoded onto the buffer and
\* the buffer processed; the loop goes on unless the phase is disconnected.
readStdout(chunk) ==
    /\ EventLoopTurn
    /\ stdoutLoop
    /\ LET r == readChunk([pendingRequests |-> pendingRequests, timers |-> timers,
                           promise |-> promise, logged |-> <<>>],
                          buffer, decoder, chunk)
       IN /\ decoder' = r.decoder
          /\ buffer' = r.buffer
          /\ pendingRequests' = r.st.pendingRequests
          /\ timers' = r.st.timers
          /\ promise' = r.st.promise
          /\ logged' = IF logger = "recording" THEN r.st.logged ELSE <<>>
    /\ stdoutLoop' = (connectionStatus # "disconnected")
    /\ lastCall' = NoCall
    /\ lastFrame' = NoFrame
    /\ UNCHANGED <<config, logger, connectionStatus, handleVars, sessionVars, nextRequestId,
                   awaiting, writing, disc, child>>

\* One turn of readStream(stderr), which runs while the reader taken in
\* connect() is held: the chunk goes through the same decoder and is logged.
readStderr(chunk) ==
    /\ EventLoopTurn
    /\ stderr # Null
    /\ decoder' = decode(decoder, chunk).held
    /\ Quiet
    /\ UNCHANGED <<config, logger, connectionStatus, handleVars, sessionVars, correlatorVars,
                   nextRequestId, buffer, awaiting, stdoutLoop, disc, child>>

\* reader.read() on stdout reports done, had the loop then rejected the
\* requests still pending.
stdoutClosedRejects ==
    /\ EventLoopTurn
    /\ stdoutLoop
    /\ stdoutLoop' = FALSE
    /\ promise' = rejectAll(promise, pendingRequests, ClosedError)
    /\ pendingRequests' = {}
    /\ Quiet
    /\ UNCHANGED <<config, logger, connectionStatus, handleVars, sessionVars, timers, writing,
                   nextRequestId, decoderVars, awaiting, disc, child>>

\* reader.read() on stdout reports done: the loop ends.
stdoutClosed ==
    /\ EventLoopTurn
    /\ stdoutLoop
    /\ stdoutLoop' = FALSE
    /\ Quiet
    /\ UNCHANGED <<config, logger, connectionStatus, handleVars, sessionVars, correlatorVars,
                   nextRequestId, decoderVars, awaiting, disc, child>>

\* ------------------------------------------------------ the specification
\* The step allocates no request id beyond limit.
WithinIds(limit) == nextRequestId' <= limit + 1

Next ==
    \/ connect
    \/ connectSpawn
    \/ disconnect
    \/ \E ok \in BOOLEAN : disconnectStdin(ok)
    \/ \E ok \in BOOLEAN : disconnectStdout(ok)
    \/ \E ok \in BOOLEAN : disconnectStderr(ok)
    \/ disconnectExited
    \/ disconnectTerminate
    \/ killTimerFire
    \/ disconnectAwaited
    \/ childExit
    \/ \E override \in {Undefined, "overrideParams"} :
          initialize(override) /\ WithinIds(MaxId)
    \/ \E op \in FeatureOps : feature(op) /\ WithinIds(MaxId)
    \/ getHealthStatus /\ WithinIds(MaxId)
    \/ \E ok \in BOOLEAN : sendNotification(ok)
    \/ \E id \in Ids : resume(id)
    \/ \E id \in Ids : timerFire(id)
    \/ \E id \in Ids, ok \in BOOLEAN : writeSettle(id, ok)
    \/ \E chunk \in StdoutChunks : readStdout(chunk)
    \/ \E chunk \in StderrChunks : readStderr(chunk)
    \/ stdoutClosed

Spec == Init /\ [][Next]_vars

\* The client from construction up to the first await of a disconnect() (no
\* cleanup step settles, so no later connect() is let in), constructed without
\* configured capabilities: the requests of every phase with their timers,
\* writes and responses, and notifications.
SessionOps == {"listTools", "callTool"}

SessionInit == Init /\ config = [capabilities |-> Undefined]

SessionNext ==
    \/ connect
    \/ connectSpawn
    \/ disconnect
    \/ \E override \in {Undefined, "overrideParams"} :
          initialize(override) /\ WithinIds(MaxId)
    \/ \E op \in SessionOps : feature(op) /\ WithinIds(MaxId)
    \/ getHealthStatus /\ WithinIds(MaxId)
    \/ \E ok \in BOOLEAN : sendNotification(ok)
    \/ \E id \in Ids : resume(id)
    \/ \E id \in Ids : timerFire(id)
    \/ \E id \in Ids, ok \in BOOLEAN : writeSettle(id, ok)
    \/ \E chunk \in StdoutChunks : readStdout(chunk)
    \/ stdoutClosed

SessionSpec == SessionInit /\ [][SessionNext]_vars

\* A session with two requests after the handshake, so that two requests are
\* pending at once: tool calls and health checks with their timers, writes and
\* responses, up to the first await of a disconnect().
BusyNext ==
    \/ connect
    \/ connectSpawn
    \/ disconnect
    \/ initialize(Undefined) /\ WithinIds(MaxSessionId)
    \/ feature("callTool") /\ WithinIds(MaxSessionId)
    \/ getHealthStatus /\ WithinIds(MaxSessionId)
    \/ \E id \in Ids : resume(id)
    \/ \E id \in Ids : timerFire(id)
    \/ \E id \in Ids, ok \in BOOLEAN : writeSettle(id, ok)
    \/ \E chunk \in StdoutChunks : readStdout(chunk)

BusySpec == SessionInit /\ [][BusyNext]_vars

\* The six feature operations in every phase: a handshake, the operations,
\* their responses, a disconnect().
FeatureNext ==
    \/ connect
    \/ connectSpawn
    \/ disconnect
    \/ initialize(Undefined) /\ WithinIds(MaxId)
    \/ \E op \in FeatureOps : feature(op) /\ WithinIds(MaxId)
    \/ \E id \in Ids : resume(id)
    \/ \E chunk \in StdoutChunks : readStdout(chunk)

FeatureSpec == SessionInit /\ [][FeatureNext]_vars

\* The event loop runs what is due: the body of connect() runs to its end, a
\* caller whose promise is settled resumes, an armed timer fires.
FairSessionSpec ==
    /\ SessionSpec
    /\ WF_vars(connectSpawn)
    /\ \A id \in Ids : WF_vars(resume(id)) /\ WF_vars(timerFire(id))

\* The read loop under a recording logger: one handshake and tool calls, their
\* timers, a disconnect(), and chunks of one line and of two lines, up to the
\* point where the first write to stdin settles.
ReaderInit ==
    /\ config = [capabilities |-> Undefined]
    /\ logger = "recording"
    /\ connectionStatus = "disconnected"
    /\ process = Null
    /\ stdin = Null
    /\ stdout = Null
    /\ stderr = Null
    /\ serverCapabilities = Undefined
    /\ serverInfo = Undefined
    /\ protocolVersion = Undefined
    /\ pendingRequests = {}
    /\ nextRequestId = 1
    /\ buffer = <<>>
    /\ decoder = FALSE
    /\ timers = {}
    /\ promise = <<>>
    /\ awaiting = <<>>
    /\ writing = {}
    /\ lastFrame = NoFrame
    /\ lastCall = Returned("constructor", NoId, NoPayload)
    /\ logged = <<>>
    /\ stdoutLoop = FALSE
    /\ disc = "idle"
    /\ child = NoChild

\* Lines that do not parse as a JSON-RPC 2.0 message, lines that are dropped,
\* and the responses sent after them in one chunk.
BadLines ==
    {JUNK, J(Msg("1.0", 1, NoMethod, "result", "pA")),
     J(Msg("none", 1, NoMethod, "result", "pA"))}
DroppedLines ==
    BadLines \cup {J(Msg("2.0", NoId, "custom/unknown", "none", NoPayload))}
PlainResponses == {Msg("2.0", i, NoMethod, "result", "pA") : i \in Ids}
SecondResponses ==
    PlainResponses \cup {Msg("2.0", i, NoMethod, "error", NoPayload) : i \in Ids}

ReaderChunks ==
    StdoutChunks
    \cup {<<first, NL, J(m), NL>> : first \in DroppedLines, m \in PlainResponses}
    \cup {<<J(m), NL, J(n), NL>> : m \in PlainResponses, n \in SecondResponses}

ReaderNext ==
    \/ connect
    \/ connectSpawn
    \/ disconnect
    \/ initialize(Undefined) /\ WithinIds(MaxId)
    \/ feature("callTool") /\ WithinIds(MaxId)
    \/ \E id \in Ids : resume(id)
    \/ \E id \in Ids : timerFire(id)
    \/ \E chunk \in ReaderChunks : readStdout(chunk)

ReaderSpec == ReaderInit /\ [][ReaderNext]_vars

\* Two tool calls outstanding at once under a recording logger: their
\* responses alone or two in one chunk, in either order.
PairChunks ==
    StdoutChunks
    \cup {<<J(m), NL, J(n), NL>> : m \in PlainResponses, n \in SecondResponses}

PairNext ==
    \/ connect
    \/ connectSpawn
    \/ initialize(Undefined) /\ WithinIds(MaxSessionId)
    \/ feature("callTool") /\ WithinIds(MaxSessionId)
    \/ \E id \in Ids : resume(id)
    \/ \E chunk \in PairChunks : readStdout(chunk)

PairSpec == ReaderInit /\ [][PairNext]_vars

\* The teardown alone: connecting, a handshake, disconnect() and its cleanup
\* steps, the child process.
TeardownNext ==
    \/ connect
    \/ connectSpawn
    \/ initialize(Undefined) /\ WithinIds(MaxId)
    \/ \E id \in Ids : resume(id)
    \/ \E id \in Ids : timerFire(id)
    \/ disconnect
    \/ \E ok \in BOOLEAN : disconnectStdin(ok)
    \/ \E ok \in BOOLEAN : disconnectStdout(ok)
    \/ \E ok \in BOOLEAN : disconnectStderr(ok)
    \/ disconnectExited
    \/ disconnectTerminate
    \/ killTimerFire
    \/ disconnectAwaited
    \/ childExit

TeardownSpec == Init /\ [][TeardownNext]_vars

\* The event loop runs what is due: a suspended caller whose promise is
\* settled resumes, the stream operations settle, timers fire, and
\* disconnect() goes on once what it awaits has settled.  Nothing makes the
\* child process exit.
FairTeardownSpec ==
    /\ TeardownSpec
    /\ \A id \in Ids : WF_vars(resume(id)) /\ WF_vars(timerFire(id))
    /\ WF_vars(\E ok \in BOOLEAN : disconnectStdin(ok))
    /\ WF_vars(\E ok \in BOOLEAN : disconnectStdout(ok))
    /\ WF_vars(\E ok \in BOOLEAN : disconnectStderr(ok))
    /\ WF_vars(disconnectExited)
    /\ WF_vars(disconnectTerminate)
    /\ WF_vars(killTimerFire)
    /\ WF_vars(disconnectAwaited)

\* An instance that is connected, disconnected and connected again: the
\* teardown with handshakes over more ids, so that a handshake of an earlier
\* connection can resume while one of a later connection is pending.
ReuseNext ==
    \/ connect
    \/ connectSpawn
    \/ initialize(Undefined) /\ WithinIds(MaxSessionId)
    \/ \E id \in Ids : resume(id)
    \/ \E id \in Ids : timerFire(id)
    \/ disconnect
    \/ \E ok \in BOOLEAN : disconnectStdin(ok)
    \/ \E ok \in BOOLEAN : disconnectStdout(ok)
    \/ \E ok \in BOOLEAN : disconnectStderr(ok)
    \/ disconnectExited
    \/ disconnectTerminate
    \/ killTimerFire
    \/ disconnectAwaited
    \/ childExit

ReuseSpec == Init /\ [][ReuseNext]_vars

\* The decoding alone, under a recording logger: a handshake whose response
\* the server writes in pieces.  The bytes of the pipes: the two halves of the
\* response's JSON text, the two bytes of a two-byte character, newline and
\* white space; a chunk holds up to MaxChunk of them.
HandshakeResponse == Msg("2.0", 1, NoMethod, "result", "pA")
Bytes == {JO(HandshakeResponse), JC(HandshakeResponse), LEAD, TRAIL, NL, SP}
RECURSIVE ChunksOf(_)
ChunksOf(n) ==
    IF n = 0 THEN {<<>>}
    ELSE LET shorter == ChunksOf(n - 1)
         IN shorter \cup {Append(c, b) : c \in {s \in shorter : Len(s) = n - 1}, b \in Bytes}
PartChunks == ChunksOf(MaxChunk) \ {<<>>}

DecoderNext ==
    \/ connect
    \/ connectSpawn
    \/ initialize(Undefined) /\ WithinIds(MaxDecoderId)
    \/ \E id \in Ids : resume(id)
    \/ \E chunk \in PartChunks : readStdout(chunk) /\ Len(buffer') <= MaxBuffer
    \/ \E chunk \in PartChunks : readStderr(chunk)
    \/ stdoutClosed

DecoderSpec == ReaderInit /\ [][DecoderNext]_vars

\* ============================================================ properties
\* What the caller of a request is handed when it resumes on promise p.
Delivers(call, p) ==
    IF p.state = "rejected"
    THEN \/ call.status = "threw" /\ call.detail = p.error
         \/ call.op = "getHealthStatus" /\ call.health.error = p.error
    ELSE p.state = "fulfilled"

\* A response for request id arrives on stdout.
responseFor(id) == \E m \in Responses : m.id = id /\ readStdout(<<J(m), NL>>)

\* C1: a request is settled exactly once.  Its promise is pending exactly
\* while its id is in the pending table; once settled the promise never
\* changes, and its caller resumes once, with that outcome; a timer firing, a
\* write-failure callback or a response that comes for an id after it was
\* settled changes neither the table nor any other request's promise nor any
\* caller, and a disconnect() leaves the settled promise as it was.
C1_SettledOnce ==
    [][\A id \in DOMAIN promise :
          /\ (promise[id].state = "pending") <=> (id \in pendingRequests)
          /\ id \in DOMAIN awaiting /\ id \notin DOMAIN awaiting' =>
                /\ promise[id].state # "pending"
                /\ lastCall'.id = id
                /\ Delivers(lastCall', promise[id])
          /\ promise[id].state # "pending" =>
                /\ id \in DOMAIN promise' => promise'[id] = promise[id]
                /\ id \in DOMAIN awaiting' => id \in DOMAIN promise'
                /\ timerFire(id) \/ writeSettle(id, FALSE) \/ responseFor(id) =>
                      /\ pendingRequests' = pendingRequests
                      /\ awaiting' = awaiting
                      /\ lastCall' = NoCall
                      /\ \A j \in DOMAIN promise \ {id} :
                            j \in DOMAIN promise' /\ promise'[j] = promise[j]]_vars

\* A request timed out and its caller has resumed, its write-failure callback
\* is still to come, and another request is pending.
C1_Witness ==
    \E id \in DOMAIN promise, j \in pendingRequests :
        /\ promise[id] = Rejected(TimeoutError)
        /\ id \in writing
        /\ id \notin DOMAIN awaiting
        /\ j # id

\* disconnect() leaves a phase other than disconnected in this step.
Disconnects ==
    /\ connectionStatus \in {"connected", "initializing", "ready"}
    /\ connectionStatus' = "disconnected"

\* The step rejects every pending request and does nothing else to the
\* correlator, the handles, the decoder or the session data.
RejectsAllPending ==
    /\ pendingRequests' = {}
    /\ DOMAIN promise' = DOMAIN promise
    /\ \A id \in DOMAIN promise :
          promise'[id] = IF id \in pendingRequests THEN Rejected(ClosedError)
                         ELSE promise[id]
    /\ \A id \in DOMAIN awaiting' : promise'[id].state # "pending"
    /\ ErrorKind(ClosedError) = "MCPConnectionError"
    /\ UNCHANGED <<handleVars, timers, writing, awaiting, nextRequestId,
                   decoderVars, sessionVars, stdoutLoop, child>>

\* C2: the step of disconnect() that leaves a phase other than disconnected
\* rejects the promise of every entry of the pending table with
\* MCPConnectionError "Connection closed" and empties the table, so that every
\* suspended caller is settled; in that step no handle is closed, no timer is
\* cleared, no id is allocated and no settled promise is touched.
C2_DisconnectRejectsAll == [][Disconnects => RejectsAllPending]_vars

\* disconnect() has just rejected two suspended callers.
C2_Witness ==
    /\ connectionStatus = "disconnected"
    /\ disc # "idle"
    /\ \E i, j \in DOMAIN awaiting :
          i # j /\ promise[i] = Rejected(ClosedError) /\ promise[j] = Rejected(ClosedError)

\* C3: when a disconnect() returns, the phase is disconnected.
C3_DisconnectedWhenDisconnectReturns ==
    lastCall = Returned("disconnect", NoId, NoPayload) =>
        connectionStatus = "disconnected"

\* The timer of request id fires while its entry is in the table.
TimesOut(id) == id \in pendingRequests /\ timerFire(id)

\* A getHealthStatus() call reads the metrics in this step: it returns at once
\* (phase not ready) or suspends on its ping.
HealthReports(n) ==
    /\ lastCall'.op = "getHealthStatus" /\ lastCall'.id = NoId =>
          lastCall'.health.pendingRequests = n
    /\ \A id \in DOMAIN awaiting' \ DOMAIN awaiting :
          awaiting'[id].op = "ping" => awaiting'[id].metrics[1] = n

\* C4: a timer that fires while its id is in the pending table rejects the
\* caller with MCPTimeoutError and removes that entry and no other, leaving
\* every other promise as it was; a health check reports as pendingRequests
\* the size the table has when it is called, and hands that number back when
\* its ping has settled.
C4_TimeoutRemovesEntry ==
    [][/\ \A id \in pendingRequests :
             TimesOut(id) =>
                /\ id \in DOMAIN awaiting'
                /\ promise'[id] = Rejected(TimeoutError)
                /\ ErrorKind(promise'[id].error) = "MCPTimeoutError"
                /\ pendingRequests' = pendingRequests \ {id}
                /\ \A j \in DOMAIN promise \ {id} :
                      j \in DOMAIN promise' /\ promise'[j] = promise[j]
       /\ HealthReports(Cardinality(pendingRequests))
       /\ \A id \in DOMAIN awaiting \ DOMAIN awaiting' :
             awaiting[id].op = "ping" =>
                lastCall'.health.pendingRequests = awaiting[id].metrics[1]]_vars

\* A request has just timed out while another one is pending.
C4_Witness ==
    \E id \in DOMAIN awaiting, j \in pendingRequests :
        /\ promise[id] = Rejected(TimeoutError)
        /\ promise[j].state = "pending"
        /\ j \in DOMAIN awaiting

\* C5: every request registered in the pending table is eventually removed
\* from it with its promise settled, and every suspended caller eventually
\* resumes, whatever the server sends or fails to send.
C5_NoCallerWaitsForever ==
    \A id \in Ids :
        /\ (id \in pendingRequests) ~> (id \notin pendingRequests)
        /\ (id \in DOMAIN awaiting) ~> (id \notin DOMAIN awaiting)

\* A caller was rejected by its timer after the server's stdout had closed.
C5_Witness ==
    \E id \in DOMAIN awaiting :
        /\ promise[id] = Rejected(TimeoutError)
        /\ ~stdoutLoop
        /\ connectionStatus # "disconnected"

\* A feature operation is called in a phase other than ready.
CalledNotReady(op) == connectionStatus # "ready" /\ feature(op)

\* C6: each of the six feature operations, called in a phase other than
\* ready, throws MCPConnectionError with a message naming the current phase,
\* writes no frame, registers no pending request, allocates no id and leaves
\* the phase unchanged; and a feature operation that ends without a request id
\* of its own has done so in a phase other than ready.
C6_NotReadyFailsFast ==
    [][/\ \A op \in FeatureOps :
             CalledNotReady(op) =>
                /\ lastCall' = Threw(op, NoId, "MCPConnectionError", connectionStatus)
                /\ lastFrame' = NoFrame
                /\ UNCHANGED <<pendingRequests, timers, promise, writing, awaiting,
                               nextRequestId, connectionStatus>>
       /\ lastCall'.op \in FeatureOps /\ lastCall'.id = NoId =>
             /\ connectionStatus # "ready"
             /\ lastCall'.status = "threw"
             /\ lastCall'.detail = connectionStatus']_vars

\* callTool() has just failed while a handshake was in flight.
C6_Witness ==
    /\ lastCall = Threw("callTool", NoId, "MCPConnectionError", "initializing")
    /\ connectionStatus = "initializing"
    /\ pendingRequests # {}

\* connect() is called in a phase other than disconnected.
ConnectsAgain == connectionStatus # "disconnected" /\ connect

\* C7: connect() called in a phase other than disconnected throws
\* MCPConnectionError and changes nothing: not the phase, the handles, the
\* pending table or the session data; a child process is spawned only by a
\* connect() that found the phase disconnected.
C7_ConnectTwiceFails ==
    [][/\ ConnectsAgain =>
             /\ lastCall' = Threw("connect", NoId, "MCPConnectionError",
                                  "Client already connected or connecting")
             /\ UNCHANGED <<connectionStatus, handleVars, correlatorVars, sessionVars,
                            awaiting, nextRequestId, decoderVars, stdoutLoop, child>>
       /\ connectionStatus' = "connecting" /\ connectionStatus # "connecting" =>
             connectionStatus = "disconnected"
       /\ child' = NewChild /\ child' # child => connectionStatus = "connecting"]_vars

\* connect() has just failed on a ready client.
C7_Witness ==
    /\ lastCall = Threw("connect", NoId, "MCPConnectionError",
                        "Client already connected or connecting")
    /\ connectionStatus = "ready"

\* connect() returned: the transport is up and both read loops run.
ConnectSucceeded ==
    /\ connectionStatus' = "connected"
    /\ lastCall' = Returned("connect", NoId, NoPayload)
    /\ process' # Null /\ stdin' # Null /\ stdout' # Null /\ stderr' # Null
    /\ stdoutLoop'
    /\ child' = NewChild

\* connect() threw: the process could not be launched.
ConnectFailed ==
    /\ connectionStatus' = "disconnected"
    /\ lastCall' = Threw("connect", NoId, "MCPConnectionError",
                         "Failed to start MCP server process")

\* C8: a connect() that found the phase disconnected ends connected, with
\* the process spawned and the read loops started, or throws
\* MCPConnectionError with the phase disconnected; when a connect() has
\* returned or thrown the phase is not connecting.
C8_ConnectEndsConnectedOrDisconnected ==
    [][/\ connectionStatus = "connecting" => ConnectSucceeded \/ ConnectFailed
       /\ lastCall'.op = "connect" => connectionStatus' # "connecting"]_vars

\* connect() has just failed to launch the process.
C8_Witness ==
    /\ lastCall = Threw("connect", NoId, "MCPConnectionError",
                        "Failed to start MCP server process")
    /\ connectionStatus = "disconnected"

\* Every id in use is below the counter.
IdsBelow(n) ==
    \A id \in pendingRequests \cup timers \cup writing \cup DOMAIN promise
                \cup DOMAIN awaiting : id < n

C10_FreshClient ==
    lastCall.op = "constructor" =>
        /\ connectionStatus = "disconnected"
        /\ serverCapabilities = Undefined
        /\ pendingRequests = {}
        /\ buffer = <<>>

\* A client has just been constructed with a full configuration.
C10_Witness ==
    /\ lastCall = Returned("constructor", NoId, NoPayload)
    /\ config.capabilities # Undefined
    /\ nextRequestId = 1

\* The params of the handshake request: the override, else the configured
\* capabilities, else the defaults.
HandshakeParams(override) ==
    IF override # Undefined THEN override
    ELSE IF config.capabilities # Undefined THEN config.capabilities
    ELSE "defaultCapabilities"

\* initialize(override) is called in phase connected.
InitializesConnected(override) ==
    connectionStatus = "connected" /\ initialize(override)

\* The handshake request is registered and written in this step.
SendsHandshake(override) ==
    /\ connectionStatus' = "initializing"
    /\ lastFrame' = Frame(nextRequestId, "initialize", HandshakeParams(override))
    /\ pendingRequests' = pendingRequests \cup {nextRequestId}

\* The caller of handshake id resumes on a success response.
HandshakeAnswered(id) ==
    /\ id \in DOMAIN awaiting
    /\ awaiting[id].op = "initialize"
    /\ promise[id].state = "fulfilled"
    /\ promise[id].response.body = "result"
    /\ resume(id)

\* C11: initialize() called in phase connected moves to initializing and
\* sends one request with method initialize (params: the override, else the
\* configured capabilities, else the defaults); when its caller resumes on a
\* success response with that id, the phase becomes ready and the server
\* capabilities are that response's payload.
C11_HandshakeSucceeds ==
    [][/\ \A override \in {Undefined, "overrideParams"} :
             InitializesConnected(override) => SendsHandshake(override)
       /\ \A id \in Ids :
             HandshakeAnswered(id) =>
                /\ promise[id].response.id = id
                /\ connectionStatus' = "ready"
                /\ serverCapabilities' = promise[id].response.payload
                /\ lastCall' = Returned("initialize", id, promise[id].response.payload)]_vars

\* The handshake has just succeeded with the default capabilities sent.
C11_Witness ==
    /\ lastCall.op = "initialize"
    /\ lastCall.status = "returned"
    /\ connectionStatus = "ready"
    /\ serverCapabilities = lastCall.value
    /\ config.capabilities = Undefined

\* The caller of handshake id resumes on a failure while the phase is still
\* initializing: an error response, a timeout or a failed write.
HandshakeFails(id) ==
    /\ id \in DOMAIN awaiting
    /\ awaiting[id].op = "initialize"
    /\ connectionStatus = "initializing"
    /\ \/ promise[id].state = "fulfilled" /\ promise[id].response.body = "error"
       \/ promise[id] = Rejected(TimeoutError)
       \/ promise[id] = Rejected(WriteError)
    /\ resume(id)

\* The error initialize() rethrows for the settled promise p.
Rethrown(p) ==
    IF p.state = "fulfilled" THEN "MCPError"
    ELSE IF p.error = TimeoutError THEN "MCPTimeoutError"
    ELSE "MCPConnectionError"

\* C12: when the handshake fails while the phase is still initializing (error
\* response, timeout, failed write), initialize() throws that failure, the
\* phase returns to connected, and server capabilities, server identity and
\* protocol version stay as they were.
C12_HandshakeFailureReverts ==
    [][\A id \in Ids :
          HandshakeFails(id) =>
             /\ connectionStatus' = "connected"
             /\ lastCall'.op = "initialize"
             /\ lastCall'.id = id
             /\ lastCall'.status = "threw"
             /\ lastCall'.error = Rethrown(promise[id])
             /\ UNCHANGED <<serverCapabilities, serverInfo, protocolVersion>>]_vars

\* A second handshake has just failed on an error response, after a first
\* one that timed out: the phase is connected again and nothing is stored.
C12_Witness ==
    /\ lastCall = Threw("initialize", 2, "MCPError", "response.error")
    /\ connectionStatus = "connected"
    /\ serverCapabilities = Undefined

\* initialize() throws 'Client not connected' and does nothing else.
InitializeRefused ==
    /\ lastCall' = Threw("initialize", NoId, "MCPConnectionError", "Client not connected")
    /\ lastFrame' = NoFrame
    /\ UNCHANGED <<connectionStatus, nextRequestId, pendingRequests, timers, promise,
                   writing, awaiting, serverCapabilities, serverInfo, protocolVersion>>

\* C13 as the spec has it: initialize() is refused in the phases disconnected
\* and connecting, and in connected and every later phase (initializing,
\* ready) it is accepted and moves the phase to initializing.
C13_LegalOnceConnected ==
    [][\A override \in {Undefined, "overrideParams"} :
          initialize(override) =>
             IF connectionStatus \in {"disconnected", "connecting"}
             THEN InitializeRefused
             ELSE connectionStatus' = "initializing"]_vars

\* C13: initialize() is accepted in phase connected only, where it moves the
\* phase to initializing; in every other phase it throws MCPConnectionError
\* 'Client not connected' without writing a frame, allocating an id,
\* registering a request or changing the phase; and the phase becomes
\* initializing from no phase but connected.
C13_LegalOnlyConnected ==
    [][/\ \A override \in {Undefined, "overrideParams"} :
             initialize(override) =>
                IF connectionStatus = "connected"
                THEN connectionStatus' = "initializing"
                ELSE InitializeRefused
       /\ connectionStatus' = "initializing" =>
             connectionStatus \in {"connected", "initializing"}]_vars

\* initialize() has just been refused on a ready client.
C13_Witness ==
    /\ lastCall = Threw("initialize", NoId, "MCPConnectionError", "Client not connected")
    /\ connectionStatus = "ready"

\* The phase changes of the connection state machine.
PhaseChanges ==
    {<<"disconnected", "connecting">>, <<"connecting", "connected">>,
     <<"connected", "initializing">>, <<"initializing", "ready">>,
     <<"initializing", "connected">>}
    \cup {<<phase, "disconnected">> : phase \in Phases}

\* C14: every change of the phase is one of disconnected->connecting,
\* connecting->connected, connected->initializing, initializing->ready,
\* initializing->connected, or a step from any phase to disconnected.
C14_PhaseTransitions ==
    [][connectionStatus' # connectionStatus =>
          <<connectionStatus, connectionStatus'>> \in PhaseChanges]_vars

\* The line holding message m arrives on stdout in a chunk of its own.
Arrives(m) == readStdout(<<J(m), NL>>)

\* The read loop goes on after the step unless the client has disconnected.
ReadLoopGoesOn == stdoutLoop' = (connectionStatus # "disconnected")

\* The step changes nothing a caller or the server can observe.
NoStateChange ==
    /\ UNCHANGED <<connectionStatus, pendingRequests, timers, promise, awaiting,
                   nextRequestId, sessionVars, handleVars>>
    /\ lastCall' = NoCall
    /\ lastFrame' = NoFrame

\* C15: a well-formed response whose id is not in the pending table when it
\* arrives (never issued, already answered, already timed out, cancelled by a
\* disconnect) is dropped with a warning: the read loop goes on, and the
\* pending table, the phase, the server capabilities and every caller's promise
\* stay as they were.
C15_StaleResponseDropped ==
    [][\A m \in Responses :
          m.id \notin pendingRequests /\ Arrives(m) =>
             /\ NoStateChange
             /\ ReadLoopGoesOn
             /\ logged' = <<Entry("warn", "Received unexpected message", m)>>]_vars

\* A response for request 2, which was issued and is no longer pending, has
\* just been dropped in phase ready.
C15_Witness ==
    /\ Len(logged) = 1
    /\ logged[1].text = "Received unexpected message"
    /\ logged[1].subject.id = 2
    /\ logged[1].subject.body = "result"
    /\ pendingRequests = {}
    /\ connectionStatus = "ready"
    /\ nextRequestId = 3

\* The lines holding m and n arrive on stdout in one chunk, m first.
ArriveTogether(m, n) == readStdout(<<J(m), NL, J(n), NL>>)

\* The pending request m answers is settled with m; no other promise changes.
SettlesOwn(m) ==
    /\ promise' = [promise EXCEPT ![m.id] = Fulfilled(m)]
    /\ pendingRequests' = pendingRequests \ {m.id}

\* The caller of request id resumes on a response.
ResumesAnswered(id) ==
    /\ id \in DOMAIN awaiting
    /\ promise[id].state = "fulfilled"
    /\ resume(id)

\* C16: responses are matched by id, not by arrival order.  A response for a
\* pending request settles that request's promise and no other, whichever
\* requests are older; two responses in one chunk, in either order, settle
\* each its own request; of two responses with one id the first settles the
\* request and the second is dropped; a caller resumes on the response that
\* carries its own id.
C16_MatchedById ==
    [][/\ \A m \in Responses :
             m.id \in pendingRequests /\ Arrives(m) => SettlesOwn(m)
       /\ \A m \in PlainResponses, n \in SecondResponses :
             {m.id, n.id} \subseteq pendingRequests /\ ArriveTogether(m, n) =>
                /\ promise'[m.id] = Fulfilled(m)
                /\ pendingRequests' = pendingRequests \ {m.id, n.id}
                /\ IF n.id # m.id
                   THEN promise'[n.id] = Fulfilled(n) /\ logged' = <<>>
                   ELSE logged' = <<Entry("warn", "Received unexpected message", n)>>
       /\ \A id \in Ids :
             ResumesAnswered(id) =>
                promise[id].response.id = id /\ lastCall'.id = id]_vars

\* Requests 2 and 3 are outstanding and the response for 3 has come first.
C16_Witness ==
    /\ 2 \in DOMAIN awaiting
    /\ 3 \in DOMAIN awaiting
    /\ promise[2] = Pending
    /\ 2 \in pendingRequests
    /\ promise[3].state = "fulfilled"
    /\ promise[3].response.id = 3

\* Request id was issued by a feature operation whose caller is suspended.
FeaturePending(id) ==
    /\ id \in DOMAIN awaiting
    /\ awaiting[id].op \in FeatureOps

ParseFailure(bad) ==
    Entry("error", "Failed to parse message", IF bad.t = "json" THEN bad.m ELSE NoMsg)

\* C18: a line that is not valid JSON, or whose jsonrpc tag is missing or not
\* "2.0", is logged and dropped: nothing changes, the buffer is left empty and
\* the read loop goes on; the response to a pending request that follows it in
\* the same chunk still settles that request.
C18_BadFrameDropped ==
    [][\A bad \in BadLines :
          /\ readStdout(<<bad, NL>>) =>
                /\ NoStateChange
                /\ ReadLoopGoesOn
                /\ buffer' = <<>>
                /\ logged' = <<ParseFailure(bad)>>
          /\ \A m \in PlainResponses :
                m.id \in pendingRequests /\ readStdout(<<bad, NL, J(m), NL>>) =>
                   /\ SettlesOwn(m)
                   /\ ReadLoopGoesOn
                   /\ buffer' = <<>>
                   /\ logged' = <<ParseFailure(bad)>>
                   /\ UNCHANGED connectionStatus]_vars

\* The read step leading here dropped a line of junk and settled request 2
\* with the response that followed it in the chunk.
C18_Witness ==
    /\ logged = <<ParseFailure(JUNK)>>
    /\ 2 \in DOMAIN awaiting
    /\ promise[2] = Fulfilled(Msg("2.0", 2, NoMethod, "result", "pA"))
    /\ stdoutLoop

\* Well-formed messages of every shape: with an id only, with a method only,
\* with both, with neither.
Shapes ==
    PlainResponses \cup Notifications \cup {m \in OddMessages : m.jsonrpc = "2.0"}

\* C19: a well-formed message is handled in exactly one of three ways, tried
\* in this order: its id is in the pending table, and it settles that request
\* as its response (nothing is logged); else it has a method and no id, and it
\* is handed to handleNotification; else it is logged as unexpected; in the
\* last two cases nothing changes.
C19_Classification ==
    [][\A m \in Shapes :
          Arrives(m) =>
             IF m.id # NoId /\ m.id \in pendingRequests
             THEN SettlesOwn(m) /\ logged' = <<>>
             ELSE IF m.method # NoMethod /\ m.id = NoId
             THEN /\ NoStateChange
                  /\ Len(logged') = 2
                  /\ logged'[1] = Entry("debug", "Received notification", m)
             ELSE /\ NoStateChange
                  /\ logged' = <<Entry("warn", "Received unexpected message", m)>>]_vars

\* A message with id 1 and a method has just been taken for the response to
\* the pending request 1.
C19_Witness ==
    /\ 1 \in DOMAIN awaiting
    /\ promise[1] = Fulfilled(Msg("2.0", 1, "server/request", "none", NoPayload))
    /\ 1 \notin pendingRequests
    /\ logged = <<>>

\* What the logger is handed for notification n.
NotificationLog(n) ==
    <<Entry("debug", "Received notification", n),
      IF n.method = "notifications/tools/list_changed"
      THEN Entry("info", "Server tools list changed", NoMsg)
      ELSE Entry("debug", "Unknown notification method", n)>>

UnknownNotification == Msg("2.0", NoId, "custom/unknown", "none", NoPayload)

\* C20: a notification, of a known or an unknown method, is logged and nothing
\* else: no frame is written, and the phase, the pending table, the request-id
\* counter and the server capabilities stay as they were; the read loop goes
\* on, and the response to a pending request that follows the notification in
\* the same chunk still settles that request.
C20_NotificationOneWay ==
    [][/\ \A n \in Notifications :
             Arrives(n) =>
                /\ NoStateChange
                /\ UNCHANGED writing
                /\ ReadLoopGoesOn
                /\ buffer' = <<>>
                /\ logged' = NotificationLog(n)
       /\ \A m \in PlainResponses :
             m.id \in pendingRequests /\ ArriveTogether(UnknownNotification, m) =>
                /\ SettlesOwn(m)
                /\ lastFrame' = NoFrame
                /\ logged' = NotificationLog(UnknownNotification)
                /\ UNCHANGED <<connectionStatus, nextRequestId, sessionVars, writing>>]_vars

\* The server's list-changed notification has just been handled in phase
\* ready while request 2 is waiting for its response.
C20_Witness ==
    /\ logged = NotificationLog(Msg("2.0", NoId, "notifications/tools/list_changed",
                                    "none", NoPayload))
    /\ connectionStatus = "ready"
    /\ pendingRequests = {2}
    /\ lastFrame = NoFrame

\* The write of the frame of the pending request id fails.
WriteFails(id) ==
    /\ id \in pendingRequests
    /\ writeSettle(id, FALSE)

\* C21: when the write of a pending request's frame fails, that request's
\* promise is rejected with the connection error 'Failed to send request' and
\* its entry leaves the pending table; every other entry stays, its promise
\* still pending.
C21_WriteFailureRejectsOne ==
    [][\A id \in Ids :
          WriteFails(id) =>
             /\ promise'[id] = Rejected(WriteError)
             /\ ErrorKind(WriteError) = "MCPConnectionError"
             /\ pendingRequests' = pendingRequests \ {id}
             /\ \A other \in pendingRequests \ {id} :
                   promise[other] = Pending /\ promise'[other] = Pending]_vars

\* The write of request 2 has failed while request 3 is still registered and
\* its caller still waiting.
C21_Witness ==
    /\ 2 \in DOMAIN awaiting
    /\ promise[2] = Rejected(WriteError)
    /\ pendingRequests = {3}
    /\ promise[3] = Pending
    /\ lastCall = NoCall

\* getHealthStatus() hands its result to its caller in this step.
HealthReturns == lastCall'.op = "getHealthStatus"

\* C22: getHealthStatus() never throws, in any phase and whatever becomes of
\* its ping, and every result with healthy = false carries an error field.
C22_HealthNeverThrowsAndExplains ==
    [][HealthReturns =>
          /\ lastCall'.status = "returned"
          /\ ~lastCall'.health.healthy => lastCall'.health.error # "none"]_vars

\* getHealthStatus() has just reported an unhealthy client without an error
\* field, in phase connected.
C22_Witness ==
    /\ lastCall.op = "getHealthStatus"
    /\ lastCall.status = "returned"
    /\ ~lastCall.health.healthy
    /\ lastCall.health.error = "none"
    /\ connectionStatus = "connected"

\* The caller of ping id resumes.
PingResumes(id) ==
    /\ id \in DOMAIN awaiting
    /\ awaiting[id].op = "ping"
    /\ resume(id)

\* C23: getHealthStatus() sends its ping only in phase ready; in every other
\* phase it writes no frame, registers no request, allocates no id and
\* reports healthy = false at once; a report of healthy = true comes only from
\* a caller that resumes on an answered ping while the phase is ready.
C23_PingOnlyWhenReady ==
    [][/\ getHealthStatus =>
             IF connectionStatus = "ready"
             THEN lastFrame' \in {NoFrame, Frame(nextRequestId, "ping", NoPayload)}
             ELSE /\ lastFrame' = NoFrame
                  /\ UNCHANGED <<pendingRequests, nextRequestId, timers, promise, awaiting>>
                  /\ lastCall'.op = "getHealthStatus"
                  /\ ~lastCall'.health.healthy
       /\ HealthReturns /\ lastCall'.health.healthy =>
             /\ connectionStatus = "ready"
             /\ \E id \in Ids : PingResumes(id) /\ promise[id].state = "fulfilled"]_vars

\* getHealthStatus() has just reported a healthy client after its ping was
\* answered.
C23_Witness ==
    /\ lastCall.op = "getHealthStatus"
    /\ lastCall.health.healthy
    /\ lastCall.id = 2
    /\ connectionStatus = "ready"

\* C24: disconnect() never fails from its caller's point of view: whatever
\* cleanup step fails, the call completes without throwing.
C24_DisconnectNeverThrows ==
    [][lastCall'.op = "disconnect" => lastCall'.status = "returned"]_vars

\* A disconnect() call that found the phase not disconnected finishes in this
\* step, by returning or by throwing.
DisconnectFinishes ==
    /\ lastCall'.op = "disconnect"
    /\ \/ connectionStatus # "disconnected"
       \/ disc # "idle" /\ disc' = "idle"

\* C25: when a disconnect() call that started in a phase other than
\* disconnected has finished, normally or not, the client holds no stdin,
\* stdout or stderr handle and no process handle.
C25_DisconnectReleasesHandles ==
    [][DisconnectFinishes =>
          /\ stdin' = Null
          /\ stdout' = Null
          /\ stderr' = Null
          /\ process' = Null]_vars

\* disconnect() has just thrown the error of a failed stdin.close().
C24_Witness ==
    /\ lastCall = Threw("disconnect", NoId, "Error", "Error during disconnect")
    /\ connectionStatus = "disconnected"
    /\ stdin # Null

\* disconnect() has finished by throwing on stderr.cancel(): the stderr reader
\* and the process handle are still held, the child still running.
C25_Witness ==
    /\ lastCall.op = "disconnect"
    /\ lastCall.status = "threw"
    /\ disc = "idle"
    /\ stdin = Null
    /\ stdout = Null
    /\ stderr # Null
    /\ process # Null
    /\ child.alive

\* The signal s is sent to the child in this step.
Sends(s) == child'.signals = Append(child.signals, s)

C27_DisconnectTerminates == (disc # "idle") ~> (disc = "idle")

\* SIGTERM and SIGKILL have been sent, no timer is left, and disconnect() is
\* suspended on process.status of a child that stays alive.
C27_Witness ==
    /\ disc = "exit"
    /\ child.alive
    /\ ~child.killTimer
    /\ child.signals = <<"SIGTERM", "SIGKILL">>
    /\ timers = {}
    /\ awaiting = <<>>

\* C28: disconnect() called in phase disconnected is a no-op: it returns
\* without throwing, sends no signal, and leaves the phase, the pending table,
\* the transport handles, the server capabilities and everything else as they
\* were; so a second disconnect() right after a first one changes nothing.
C28_DisconnectIdempotent ==
    [][disconnect /\ connectionStatus = "disconnected" =>
          /\ lastCall' = Returned("disconnect", NoId, NoPayload)
          /\ lastFrame' = NoFrame
          /\ UNCHANGED <<connectionStatus, pendingRequests, handleVars, sessionVars,
                         child, promise, timers, awaiting, writing, nextRequestId,
                         decoderVars, stdoutLoop, disc>>]_vars

\* A second disconnect() has just returned while the first one is still
\* waiting for the process to exit after SIGTERM.
C28_Witness ==
    /\ lastCall = Returned("disconnect", NoId, NoPayload)
    /\ connectionStatus = "disconnected"
    /\ disc = "exit"
    /\ process # Null
    /\ child.signals = <<"SIGTERM">>

\* The reader state of the client as it is.
ReaderState ==
    [pendingRequests |-> pendingRequests, timers |-> timers, promise |-> promise,
     logged |-> <<>>]

\* Reading first and then second, in two turns of the read loop.
ReadTwice(first, second) ==
    LET a == readChunk(ReaderState, buffer, decoder, first)
        b == readChunk(a.st, a.buffer, a.decoder, second)
    IN [b EXCEPT !.lines = a.lines \o @]

\* Reading the bytes of first and second as one chunk.
ReadOnce(first, second) == readChunk(ReaderState, buffer, decoder, first \o second)

IsText(c) == c.t \notin {"nl", "sp"}
RECURSIVE Flatten(_)
Flatten(seqs) == IF seqs = <<>> THEN <<>> ELSE Head(seqs) \o Flatten(Tail(seqs))

\* The lines r lists are frames: not empty, within one line, trimmed; what r
\* leaves buffered holds no newline; and lines and remainder together are the
\* text read, in order, less newlines and white space.
FramesOf(r, text) ==
    /\ \A i \in 1..Len(r.lines) :
          LET line == r.lines[i]
          IN /\ line # <<>>
             /\ \A j \in 1..Len(line) : line[j].t # "nl"
             /\ line[1].t # "sp"
             /\ line[Len(line)].t # "sp"
    /\ \A j \in 1..Len(r.buffer) : r.buffer[j].t # "nl"
    /\ SelectSeq(Flatten(r.lines) \o r.buffer, IsText) = SelectSeq(text, IsText)
    /\ Len(r.lines) <= Len(SelectSeq(text, LAMBDA c : c.t = "nl"))

\* C29: frame decoding does not depend on chunk boundaries.  From any state of
\* buffer and decoder, reading a chunk and then one more byte in a second turn
\* dispatches the same lines, and leaves the same buffer and decoder state, as
\* reading them as one chunk (so every way of splitting a text comes to
\* reading it byte by byte); the lines dispatched are the newline-terminated
\* lines of the text, trimmed, empty ones left out, and what follows the last
\* newline stays buffered.
C29_ChunkBoundaries ==
    \A first \in PartChunks :
       /\ FramesOf(readChunk(ReaderState, buffer, decoder, first),
                   buffer \o decode(decoder, first).text)
       /\ \A byte \in Bytes :
             LET once == ReadOnce(first, <<byte>>)
                 twice == ReadTwice(first, <<byte>>)
             IN /\ twice.lines = once.lines
                /\ twice.buffer = once.buffer
                /\ twice.decoder = once.decoder

\* The response's first half and the lead byte of a two-byte character are in:
\* the half is buffered, the byte held by the decoder, the handshake pending.
C29_Witness ==
    /\ buffer = <<JO(HandshakeResponse)>>
    /\ decoder
    /\ pendingRequests = {1}
    /\ stdoutLoop

\* C30: the stderr read loop takes no part in the protocol state: a read from
\* stderr changes neither the decode buffer, nor the pending table, nor the
\* phase, nor what any following read from stdout dispatches and leaves
\* buffered, also when a two-byte character is split across two reads.
C30_StderrApart ==
    [][\A chunk \in PartChunks :
          readStderr(chunk) =>
             /\ UNCHANGED <<buffer, pendingRequests, connectionStatus, promise>>
             /\ \A next \in PartChunks :
                   LET before == readChunk(ReaderState, buffer, decoder, next)
                       after == readChunk(ReaderState, buffer', decoder', next)
                   IN /\ after.lines = before.lines
                      /\ after.buffer = before.buffer
                      /\ after.st = before.st]_vars

\* The handshake response came with its two-byte character split across two
\* reads, and the caller of initialize() holds a garbled payload.
C30_Witness ==
    /\ 1 \in DOMAIN awaiting
    /\ promise[1].state = "fulfilled"
    /\ promise[1].response.payload = "garbled"
    /\ stderr # Null

\* ------------------------------------------------------------ C31
\* Evidence that this instance has held a connection before: a request id was
\* allocated, a capability set was stored, or a handle or read loop is left.
WasConnected ==
    \/ nextRequestId > 1
    \/ serverCapabilities # Undefined
    \/ process # Null
    \/ stdoutLoop

\* connect() is accepted and launches the server.
Reconnects ==
    /\ connectionStatus = "connecting"
    /\ connectionStatus' = "connected"

\* C31: a client instance is not reusable once disconnected: an instance that
\* was connected and is disconnected again never leaves the phase
\* disconnected, and a new connection sees neither a decode buffer remainder
\* nor a server capability set of an earlier one.
C31_NotReusable ==
    [][/\ connectionStatus = "disconnected" /\ WasConnected
          => connectionStatus' = "disconnected"
       /\ Reconnects => serverCapabilities' = Undefined /\ buffer' = <<>>]_vars

\* An instance is connected for the second time and still holds the
\* capability set of its first connection.
C31_Witness ==
    /\ connectionStatus = "connected"
    /\ lastCall = Returned("connect", NoId, NoPayload)
    /\ serverCapabilities # Undefined

\* ------------------------------------------------------------ C32
\* C32: the server capability set is immutable once received: after a
\* successful handshake has stored it, no step of the client changes the value
\* getServerCapabilities() returns.
C32_CapabilitiesImmutable ==
    [][serverCapabilities # Undefined => serverCapabilities' = serverCapabilities]_vars

\* A capability set is stored and the instance is connected again, ready for a
\* further handshake.
C32_Witness ==
    /\ serverCapabilities \in Payloads
    /\ connectionStatus = "initializing"
    /\ pendingRequests # {}

\* ------------------------------------------------------------ C33
\* C33: each timeout timer is tied one-to-one to a pending entry: in every
\* reachable state a timer is armed for a request id exactly when that id is
\* in the pending table.
C33_TimerPerEntry ==
    timers = pendingRequests

\* A request's entry was removed by disconnect() or by a failed write and its
\* timer is still armed.
C33_Witness ==
    \E id \in timers : id \notin pendingRequests /\ promise[id].state = "rejected"

\* ------------------------------------------------------------ C34
\* C34: in every reachable state, whenever the phase is disconnected the
\* pending table is empty.
C34_DisconnectedHasNoPending ==
    connectionStatus = "disconnected" => pendingRequests = {}

\* disconnect() has just emptied a table that held a request: the phase is
\* disconnected and the request is rejected with "Connection closed".
C34_Witness ==
    /\ connectionStatus = "disconnected"
    /\ disc # "idle"
    /\ \E id \in DOMAIN promise : promise[id] = Rejected(ClosedError)

\* ------------------------------------------------------------ C35
\* The step hands the frame of request id to the transport.
Transmits(id) ==
    /\ lastFrame' # NoFrame
    /\ lastFrame'.id = id

\* C35: registration precedes transmission.  The step that hands a request's
\* frame to the transport is the step that creates its pending entry and its
\* timer, so no state has the frame sent and the entry missing, and a
\* response read in a later step finds the id registered unless the entry was
\* removed in between.
C35_RegisteredWhenSent ==
    [][\A id \in Ids :
          Transmits(id) => /\ id \notin pendingRequests
                           /\ id \notin timers
                           /\ id \in pendingRequests'
                           /\ id \in timers'
                           /\ promise'[id] = Pending]_vars

\* A feature request has just been sent and is registered with its timer.
C35_Witness ==
    /\ lastFrame.method = "tools/call"
    /\ lastFrame.id \in pendingRequests \cap timers
    /\ lastFrame.id \in writing

\* ------------------------------------------------------------ C36
\* The handshake requests registered in table and waited for by initialize().
HandshakesInFlight(table, waiters) ==
    {id \in table : id \in DOMAIN waiters /\ waiters[id].op = "initialize"}

\* C36: at most one handshake request is in flight at any time.  An
\* initialize() call made while the phase is initializing throws
\* MCPConnectionError, sends no frame and changes neither the phase nor the
\* pending table, the promises or the waiting callers, and no step leaves two
\* handshake requests in the pending table.
C36_OneHandshakeInFlight ==
    [][/\ \A override \in {Undefined, "overrideParams"} :
             connectionStatus = "initializing" /\ initialize(override)
                => InitializeRefused
       /\ Cardinality(HandshakesInFlight(pendingRequests', awaiting')) <= 1]_vars

\* Two handshake requests are pending at once: the catch block of an earlier
\* initialize() put the phase back to connected while a later one was waiting.
C36_Witness ==
    /\ connectionStatus = "initializing"
    /\ Cardinality(HandshakesInFlight(pendingRequests, awaiting)) = 2

\* ------------------------------------------------------------ C37
\* The step is the continuation of an initialize() whose request got a
\* success response, and it stores that response's payload.
HandshakeCompletes ==
    \E id \in DOMAIN awaiting :
       /\ HandshakeAnswered(id)
       /\ promise[id].response.payload \in Payloads
       /\ serverCapabilities' = promise[id].response.payload

\* C37: the phase ready is reached only through a successful handshake.  A
\* step that ends in phase ready either completes a handshake on a success
\* response and stores its capability payload, or starts in phase ready and
\* leaves the stored capability set alone; so in phase ready
\* getServerCapabilities() is the payload of the handshake completed last.
C37_ReadyOnlyByHandshake ==
    [][connectionStatus' = "ready" =>
          \/ HandshakeCompletes
          \/ /\ connectionStatus = "ready"
             /\ serverCapabilities' = serverCapabilities
             /\ serverCapabilities \in Payloads]_vars

\* A handshake has just completed: the phase is ready and the capability set
\* is the payload initialize() returned.
C37_Witness ==
    /\ connectionStatus = "ready"
    /\ lastCall.op = "initialize"
    /\ lastCall.status = "returned"
    /\ serverCapabilities = lastCall.value
    /\ serverCapabilities \in Payloads

\* ------------------------------------------------------------ C38
\* The stdout read loop ends on end of stream: it stops while the client has
\* not disconnected.
StreamEnds ==
    /\ stdoutLoop
    /\ ~stdoutLoop'
    /\ connectionStatus # "disconnected"

\* The entry of request id leaves the pending table after the output stream
\* has ended.
SettledAfterEnd(id) ==
    /\ ~stdoutLoop
    /\ id \in pendingRequests
    /\ id \notin pendingRequests'

\* C38 as the spec has it: end of the server's output stream changes neither
\* the phase nor the pending table, and a request outstanding after it is
\* settled only by its timeout or by disconnect().
C38_SettledByTimeoutOrDisconnect ==
    [][/\ StreamEnds => UNCHANGED <<connectionStatus, pendingRequests, timers, promise,
                                    awaiting, sessionVars>>
       /\ \A id \in Ids :
             SettledAfterEnd(id) => TimesOut(id) \/ Disconnects]_vars

\* C38: end of the server's output stream changes neither the phase nor the
\* pending table, and a request outstanding after it is settled only by its
\* timeout, by disconnect(), or by the failure of its own write.
C38_StreamEndSettlesNothing ==
    [][/\ StreamEnds => UNCHANGED <<connectionStatus, pendingRequests, timers, promise,
                                    awaiting, sessionVars>>
       /\ \A id \in Ids :
             SettledAfterEnd(id) => TimesOut(id) \/ Disconnects \/ WriteFails(id)]_vars

\* The output stream has ended and a request is still outstanding.
C38_Witness ==
    /\ ~stdoutLoop
    /\ connectionStatus = "ready"
    /\ pendingRequests # {}
    /\ \A id \in pendingRequests : promise[id] = Pending

\* ------------------------------------------------------------ C39
\* A sendNotification() call ends in this step.
Notifies == lastCall'.op = "sendNotification"

\* C39: sendNotification() bypasses the correlator.  In phase disconnected, or
\* without an input stream, it throws MCPConnectionError 'Client not
\* connected' and writes nothing; otherwise it writes its one frame and
\* returns, or throws MCPConnectionError 'Failed to send notification' when
\* the write fails.  In every case it registers no pending request, arms no
\* timer, allocates no request id, sends no request frame, settles no promise
\* and changes neither the phase nor any other field of the client.
C39_NotificationBypassesCorrelator ==
    [][Notifies =>
          /\ UNCHANGED <<connectionStatus, pendingRequests, timers, promise, writing,
                         awaiting, nextRequestId, sessionVars, handleVars, buffer, decoder,
                         stdoutLoop>>
          /\ lastFrame' = NoFrame
          /\ IF connectionStatus = "disconnected" \/ stdin = Null
             THEN lastCall' = Threw("sendNotification", NoId, "MCPConnectionError",
                                    "Client not connected")
             ELSE lastCall' \in {Returned("sendNotification", NoId, "frame written"),
                                 Threw("sendNotification", NoId, "MCPConnectionError",
                                       "Failed to send notification")}]_vars

\* A notification has been written while a handshake request is pending.
C39_Witness ==
    /\ lastCall = Returned("sendNotification", NoId, "frame written")
    /\ connectionStatus = "initializing"
    /\ pendingRequests # {}

====
